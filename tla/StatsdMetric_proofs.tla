------------------------ MODULE StatsdMetric_proofs ------------------------
(***************************************************************************)
(* Proofs about StatsdMetric, for all names, values and samplings: lines   *)
(* have their types, gauges are off by what was lowered, and counters by   *)
(* what the digits of a rate leave out.                                    *)
(***************************************************************************)
EXTENDS StatsdMetric, TLAPS

Characters == STRING \cup {"_"}

LEMMA CharactersOf ==
  ASSUME NEW text \in Seq(STRING)
  PROVE  text \in Seq(Characters)
<1>1. PICK n \in Nat : text \in [1..n -> STRING]  OBVIOUS
<1>2. text \in [1..n -> Characters]  BY <1>1 DEF Characters
<1> QED  BY <1>2

LEMMA CleanedType ==
  ASSUME NEW name \in MetricNames
  PROVE  Cleaned(name) \in Seq(Characters)
<1>1. name \in Seq(STRING)  BY MetricAssumption
<1>2. PICK n \in Nat : name \in [1..n -> STRING]  BY <1>1
<1>3. DOMAIN name = 1..n  BY <1>2
<1>4. \A i \in 1..n :
        (IF name[i] \in {":", "|", "@"} THEN "_" ELSE name[i]) \in Characters
  BY <1>2 DEF Characters
<1>5. Cleaned(name) \in [1..n -> Characters]  BY <1>3, <1>4 DEF Cleaned
<1> QED  BY <1>5

(* sanitize_name() leaves no colon in a name, so that a server reads the   *)
(* whole name as it was written, if prefix and suffix have none either.    *)
LEMMA FullNameIsRead ==
  ASSUME Undivided, TypeOK, NEW name \in MetricNames
  PROVE  ReadName(FullName(name)) = FullName(name)
<1> DEFINE cleaned == Cleaned(name)
           front == statsd.prefix \o cleaned
<1>1. /\ statsd \in Clients
      /\ statsd.prefix \in Seq(Characters) /\ statsd.suffix \in Seq(Characters)
  BY CharactersOf, MetricAssumption DEF TypeOK
<1>2. cleaned \in Seq(Characters)  BY CleanedType
<1>3. \A i \in DOMAIN cleaned : cleaned[i] # ":"  BY DEF Cleaned
<1>4. FullName(name) = front \o statsd.suffix  BY DEF FullName, Named
<1>5. \A i \in DOMAIN statsd.prefix : statsd.prefix[i] # ":"  BY <1>1 DEF Undivided
<1>6. \A i \in DOMAIN statsd.suffix : statsd.suffix[i] # ":"  BY <1>1 DEF Undivided
<1> HIDE DEF cleaned
<1>7. front \in Seq(Characters) /\ \A i \in DOMAIN front : front[i] # ":"
  BY <1>1, <1>2, <1>3, <1>5
<1> HIDE DEF front
<1>8. \A i \in DOMAIN FullName(name) : FullName(name)[i] # ":"
  BY <1>1, <1>4, <1>6, <1>7
<1> QED  BY <1>8 DEF ReadName

(* What "%.2f" prints is a rate, above 0 from one percent on, exact for a  *)
(* whole percentage, and off by a third or a half of itself at most.       *)
LEMMA RateType ==
  ASSUME NEW ignore \in BOOLEAN, TypeOK, NEW rate \in Rates(SamplingOf(ignore))
  PROVE  /\ rate \in 0..100
         /\ statsd.sampling % 10 = 0 => 10 * rate = SamplingOf(ignore)
         /\ statsd.sampling >= 10 =>
              /\ rate > 0
              /\ 2 * SamplingOf(ignore) <= 3 * (10 * rate)
              /\ 3 * (10 * rate) <= 4 * SamplingOf(ignore)
<1> DEFINE s == statsd.sampling
<1>1. s \in 1..1000  BY MetricAssumption DEF TypeOK
<1>2. SamplingOf(ignore) \in {1000, s}  BY DEF SamplingOf
<1>3. CASE SamplingOf(ignore) >= 1000
  <2>1. rate = 100  BY <1>3 DEF Rates
  <2>2. SamplingOf(ignore) = 1000  BY <1>1, <1>2, <1>3
  <2> QED  BY <2>1, <2>2
<1>4. CASE ~(SamplingOf(ignore) >= 1000)
  <2>1. SamplingOf(ignore) = s  BY <1>2, <1>4
  <2>2. rate \in 0..100 /\ 10 * rate - s \in -5..5
    BY <1>4, <2>1 DEF Rates
  <2> HIDE DEF s
  <2>3. s >= 10 => rate > 0 /\ 2 * s <= 3 * (10 * rate) /\ 3 * (10 * rate) <= 4 * s
    BY <1>1, <2>2
  <2>4. s % 10 = 0 => 10 * rate = s  BY <1>1, <2>2
  <2> QED  BY <2>1, <2>2, <2>3, <2>4 DEF s
<1> QED  BY <1>3, <1>4

LEMMA Quotient ==
  ASSUME NEW k \in Nat, NEW r \in Nat \ {0}, k % r = 0
  PROVE  k \div r \in Nat /\ (k \div r) * r = k
OBVIOUS

LEMMA Scaled ==
  ASSUME NEW x \in Nat, NEW y \in Nat, NEW z \in Nat, x <= y
  PROVE  z * x <= z * y
OBVIOUS

LEMMA ScaledLess ==
  ASSUME NEW x \in Nat, NEW y \in Nat, NEW z \in Nat \ {0}, x < y
  PROVE  x * z < y * z
OBVIOUS

(* What an event stands for is to another as the inverse of the rates.     *)
LEMMA EachCompared ==
  ASSUME NEW a \in Nat \ {0}, NEW b \in Nat \ {0}, NEW p \in Nat, NEW q \in Nat,
         (1000 * Unit) % a = 0, (1000 * Unit) % b = 0, p * b <= q * a
  PROVE  p * Each(a) <= q * Each(b)
<1> DEFINE k == 1000 * Unit
           x == Each(a)
           y == Each(b)
<1>1. k \in Nat  BY MetricAssumption
<1>2. x \in Nat /\ x * a = k /\ y \in Nat /\ y * b = k
  BY <1>1, Quotient DEF Each
<1> HIDE DEF k, x, y
<1>3. SUFFICES ASSUME q * y < p * x PROVE FALSE  BY <1>2 DEF x, y
<1>4. (q * y) * (a * b) < (p * x) * (a * b)  BY <1>2, <1>3, ScaledLess
<1>5. (q * y) * (a * b) = k * (q * a)  BY <1>1, <1>2
<1>6. (p * x) * (a * b) = k * (p * b)  BY <1>1, <1>2
<1>7. k * (p * b) <= k * (q * a)  BY <1>1, Scaled
<1> QED  BY <1>1, <1>4, <1>5, <1>6, <1>7

(* The rates that are configured or printed divide the parts of an event.  *)
LEMMA RatesDivide ==
  ASSUME NEW ignore \in BOOLEAN, TypeOK, NEW rate \in Rates(SamplingOf(ignore)), rate > 0
  PROVE  /\ SamplingOf(ignore) \in Nat \ {0} /\ 10 * rate \in Nat \ {0}
         /\ (1000 * Unit) % SamplingOf(ignore) = 0
         /\ (1000 * Unit) % (10 * rate) = 0
         /\ Each(SamplingOf(ignore)) \in Nat /\ Each(10 * rate) \in Nat
<1>1. /\ statsd \in Clients /\ statsd.sampling \in 1..1000
      /\ Unit \in Nat \ {0} /\ rate \in 0..100
  <2>1. statsd \in Clients  BY DEF TypeOK
  <2>2. statsd.sampling \in 1..1000 /\ Unit \in Nat \ {0}  BY <2>1, MetricAssumption
  <2>3. rate \in 0..100  BY RateType
  <2> QED  BY <2>1, <2>2, <2>3
<1>2. CASE SamplingOf(ignore) = 1000
  <2>1. rate = 100  BY <1>2 DEF Rates
  <2>2. (1000 * Unit) % 1000 = 0  BY <1>1
  <2>3. Each(1000) \in Nat  BY <1>1, <2>2, Quotient DEF Each
  <2> QED  BY <1>2, <2>1, <2>2, <2>3
<1>3. CASE SamplingOf(ignore) = statsd.sampling
  <2> DEFINE r1 == statsd.sampling
             r2 == 10 * rate
  <2>1. (1000 * Unit) % r1 = 0  BY <1>1, MetricAssumption
  <2>2. (1000 * Unit) % r2 = 0
    <3>1. rate \in Rates(statsd.sampling)  BY <1>3
    <3>2. \A h \in Rates(statsd.sampling) : h > 0 => (1000 * Unit) % (10 * h) = 0
      BY <1>1, MetricAssumption
    <3> QED  BY <3>1, <3>2
  <2>3. r1 \in Nat \ {0} /\ r2 \in Nat \ {0} /\ 1000 * Unit \in Nat  BY <1>1
  <2> HIDE DEF r1, r2
  <2>4. Each(r1) \in Nat /\ Each(r2) \in Nat  BY <2>1, <2>2, <2>3, Quotient DEF Each
  <2> QED  BY <1>3, <2>1, <2>2, <2>3, <2>4 DEF r1, r2
<1> QED  BY <1>2, <1>3 DEF SamplingOf

LEMMA EachType ==
  ASSUME TypeOK, NEW ignore \in BOOLEAN PROVE Each(SamplingOf(ignore)) \in Int
<1>1. statsd \in Clients  BY DEF TypeOK
<1>2. statsd.sampling \in 1..1000 /\ Unit \in Nat  BY <1>1, MetricAssumption
<1>3. SamplingOf(ignore) \in Nat \ {0} /\ 1000 * Unit \in Nat
  BY <1>2 DEF SamplingOf
<1> QED  BY <1>3 DEF Each

(* A line that is sent adds one to the lines and keeps the totals of the   *)
(* server numbers, if its number is one.                                   *)
LEMMA SentKeepsTypes ==
  ASSUME TypeOK, NEW l, Sent(l), lines < MaxLines, l.val \in Int,
         l.type = "ms" => l.val \in 0..STATSD_MAX_TIME_MS,
         l.rate \in 0..100
  PROVE  /\ statsd' \in Clients
         /\ line'.type = "ms" => line'.val \in 0..STATSD_MAX_TIME_MS
         /\ line'.rate \in 0..100
         /\ lines' \in 0..MaxLines
         /\ seen' \in [Totals -> Int]
<1> DEFINE at == [type |-> l.type, key |-> ReadName(l.name)]
<1>1. statsd' \in Clients  BY DEF TypeOK, Sent
<1>2. line' = l  BY DEF Sent
<1>3. lines' \in 0..MaxLines  BY MetricAssumption DEF TypeOK, Sent
<1>4. ASSUME NEW total \in Int, Readable(l) PROVE Reading(l, total) \in Int
  <2>1. Number(l) \in Int  BY DEF Number
  <2>2. Each(10 * l.rate) \in Int
    <3>1. l.rate \in 0..100 /\ l.rate > 0  BY <1>4 DEF Readable
    <3>2. Unit \in Nat  BY MetricAssumption
    <3>3. 10 * l.rate \in Nat \ {0} /\ 1000 * Unit \in Nat  BY <3>1, <3>2
    <3> QED  BY <3>3 DEF Each
  <2> HIDE DEF at
  <2> QED  BY <1>4, <2>1, <2>2 DEF Reading
<1>5. seen \in [Totals -> Int]  BY DEF TypeOK
<1>6. CASE at \in DOMAIN seen /\ Readable(l)
  <2>1. seen' = [seen EXCEPT ![at] = Reading(l, @)]  BY <1>6 DEF Sent
  <2>2. at \in Totals  BY <1>5, <1>6
  <2>3. Reading(l, seen[at]) \in Int  BY <1>4, <1>5, <1>6, <2>2
  <2> HIDE DEF at
  <2>4. seen' \in [Totals -> Int]  BY <1>5, <2>1, <2>2, <2>3
  <2> QED  BY <1>1, <1>2, <1>3, <2>4
<1>7. CASE ~(at \in DOMAIN seen /\ Readable(l))
  <2>1. seen' = seen  BY <1>7 DEF Sent
  <2> QED  BY <1>1, <1>2, <1>3, <1>5, <2>1
<1> QED  BY <1>6, <1>7
-----------------------------------------------------------------------------
(* What a caller asks of a counter or a gauge is kept as a number.         *)
LEMMA AskedKeepsTypes ==
  ASSUME TypeOK, NEW type, NEW name, NEW total \in Int, Asked(type, name, total)
  PROVE  asked' \in [Totals -> Int]
<1> DEFINE at == [type |-> type, key |-> FullName(name)]
<1>1. asked \in [Totals -> Int]  BY DEF TypeOK
<1>2. asked' = [asked EXCEPT ![at] = total]  BY DEF Asked
<1> HIDE DEF at
<1> QED  BY <1>1, <1>2

LEMMA NameInTotals ==
  ASSUME TypeOK, NEW type \in {"c", "g"}, NEW name \in MetricNames
  PROVE  [type |-> type, key |-> FullName(name)] \in Totals
<1>1. statsd \in Clients  BY DEF TypeOK
<1>2. FullName(name) \in Keys  BY <1>1 DEF Keys, FullName
<1> QED  BY <1>2 DEF Totals

LEMMA TotalType ==
  ASSUME TypeOK, NEW type \in {"c", "g"}, NEW name \in MetricNames
  PROVE  Total(type, name) \in Int
<1>1. asked \in [Totals -> Int]  BY DEF TypeOK
<1> QED  BY <1>1, NameInTotals DEF Total

(* Every kind of metric keeps the types; times are within the limit of     *)
(* statsd_metric_timer().                                                  *)
LEMMA NextKeepsTypes ==
  ASSUME TypeOK, Next
  PROVE  TypeOK'
<1>1. lines < MaxLines  BY DEF Next
<1>2. PICK name \in MetricNames :
        \/ \E incr \in Incrs, ignore \in BOOLEAN : Counter(name, incr, ignore)
        \/ \E ms \in Times, ignore \in BOOLEAN : Timer(name, ms, ignore)
        \/ \E val \in Adjustments : AdjustGauge(name, val)
        \/ \E val \in Settings : SetGauge(name, val)
  BY DEF Next
<1>3. FullName(name) \in Keys  BY DEF TypeOK, Keys, FullName
<1>4. lowered \in [Keys -> Nat] /\ Keys' = Keys  BY DEF TypeOK, Keys
<1>5. ASSUME NEW incr \in Incrs, NEW ignore \in BOOLEAN, Counter(name, incr, ignore)
      PROVE  TypeOK'
  <2>0. PICK rate \in Rates(SamplingOf(ignore)) : Sent(Line("c", name, "", incr, rate))
    BY <1>5 DEF Counter
  <2> DEFINE l == Line("c", name, "", incr, rate)
             total == Total("c", name) + incr * Each(SamplingOf(ignore))
  <2>1. Sent(l) /\ Asked("c", name, total) /\ lowered' = lowered  BY <2>0, <1>5 DEF Counter
  <2>2. incr \in Int /\ total \in Int
    <3>1. /\ incr \in Int /\ Total("c", name) \in Int
          /\ Each(SamplingOf(ignore)) \in Int
      BY TotalType, EachType, MetricAssumption
    <3> QED  BY <3>1
  <2>3. /\ l.val \in Int /\ l.rate \in 0..100
        /\ l.type # "ms"
    BY <2>2, RateType DEF Line
  <2> HIDE DEF l, total
  <2>4. asked' \in [Totals -> Int]  BY <2>1, <2>2, AskedKeepsTypes
  <2> QED  BY <1>1, <1>4, <2>1, <2>3, <2>4, SentKeepsTypes DEF TypeOK
<1>6. ASSUME NEW ms \in Times, NEW ignore \in BOOLEAN, Timer(name, ms, ignore)
      PROVE  TypeOK'
  <2>0. PICK rate \in Rates(SamplingOf(ignore)) : Sent(Line("ms", name, "", Time(ms), rate))
    BY <1>6 DEF Timer
  <2> DEFINE l == Line("ms", name, "", Time(ms), rate)
  <2>1. Sent(l) /\ asked' = asked /\ lowered' = lowered  BY <2>0, <1>6 DEF Timer
  <2>2. Time(ms) \in 0..STATSD_MAX_TIME_MS  BY MetricAssumption DEF Time
  <2>3. l.rate \in 0..100  BY RateType DEF Line
  <2>4. l.val \in 0..STATSD_MAX_TIME_MS  BY <2>2 DEF Line
  <2>5. asked' \in [Totals -> Int]  BY <2>1 DEF TypeOK
  <2> HIDE DEF l
  <2> QED  BY <1>1, <1>4, <2>1, <2>3, <2>4, <2>5, SentKeepsTypes, MetricAssumption DEF TypeOK
<1>7. ASSUME NEW val \in Adjustments, AdjustGauge(name, val)
      PROVE  TypeOK'
  <2> DEFINE l == Line("g", name, Sign(val), val, 100)
  <2>1. Sent(l) /\ Asked("g", name, Total("g", name) + val)  BY <1>7 DEF AdjustGauge
  <2>2. val \in Int /\ Total("g", name) + val \in Int
    BY TotalType, MetricAssumption
  <2>3. /\ l.val \in Int /\ l.rate \in 0..100
        /\ l.type # "ms"
    BY <2>2 DEF Line
  <2>4. asked' \in [Totals -> Int]  BY <2>1, <2>2, AskedKeepsTypes
  <2>5. lowered' \in [Keys -> Nat]
    <3>1. lowered' = IF val < 0 THEN [lowered EXCEPT ![FullName(name)] = @ - val] ELSE lowered
      BY <1>7 DEF AdjustGauge
    <3>2. val < 0 => lowered[FullName(name)] - val \in Nat  BY <1>3, <1>4, <2>2
    <3> QED  BY <1>4, <3>1, <3>2
  <2> HIDE DEF l
  <2> QED  BY <1>1, <1>4, <2>1, <2>3, <2>4, <2>5, SentKeepsTypes DEF TypeOK
<1>8. ASSUME NEW val \in Settings, SetGauge(name, val)
      PROVE  TypeOK'
  <2> DEFINE l == Line("g", name, "", NotNegative(val), 100)
             total == IF val < 0 THEN 0 ELSE val
  <2>1. Sent(l) /\ Asked("g", name, total)  BY <1>8 DEF SetGauge
  <2>2. val \in Int /\ total \in Int /\ NotNegative(val) \in Int
    BY MetricAssumption DEF NotNegative
  <2>3. /\ l.val \in Int /\ l.rate \in 0..100
        /\ l.type # "ms"
    BY <2>2 DEF Line
  <2> HIDE DEF l, total
  <2>4. asked' \in [Totals -> Int]  BY <2>1, <2>2, AskedKeepsTypes
  <2>5. lowered' \in [Keys -> Nat]  BY <1>8, <1>4 DEF SetGauge
  <2> QED  BY <1>1, <1>4, <2>1, <2>3, <2>4, <2>5, SentKeepsTypes DEF TypeOK
<1> QED  BY <1>2, <1>5, <1>6, <1>7, <1>8

(* The type invariant holds of every reachable state; in particular no     *)
(* timer line exceeds STATSD_MAX_TIME_MS.                                  *)
THEOREM TypeCorrect == Spec => []TypeOK
<1>1. Init => TypeOK
  <2> SUFFICES ASSUME Init PROVE TypeOK  OBVIOUS
  <2>1. asked \in [Totals -> Int] /\ seen = asked  BY DEF Init
  <2>2. line.type = "none" /\ line.rate = 100  BY DEF Init, NoLine
  <2>3. lines \in 0..MaxLines  BY MetricAssumption DEF Init
  <2>4. lowered \in [Keys -> Nat]  BY DEF Init
  <2> QED  BY <2>1, <2>2, <2>3, <2>4 DEF Init, TypeOK
<1>2. TypeOK /\ [Next]_vars => TypeOK'
  <2> SUFFICES ASSUME TypeOK, [Next]_vars PROVE TypeOK'  OBVIOUS
  <2>1. CASE Next  BY <2>1, NextKeepsTypes
  <2>2. CASE UNCHANGED vars  BY <2>2 DEF TypeOK, vars, Totals, Keys
  <2> QED  BY <2>1, <2>2
<1> QED  BY <1>1, <1>2, PTL DEF Spec
-----------------------------------------------------------------------------
(* A line of a name moves the total of its own type and name only.         *)
LEMMA SentMoves ==
  ASSUME TypeOK, Undivided, NEW l, Sent(l), NEW name \in MetricNames,
         l.name = FullName(name), NEW type \in {"c", "g"}, NEW key \in Keys
  PROVE  SeenOf(type, key)' =
           IF l.type = type /\ key = FullName(name) /\ Readable(l)
             THEN Reading(l, SeenOf(type, key)) ELSE SeenOf(type, key)
<1> DEFINE at == [type |-> l.type, key |-> ReadName(l.name)]
           here == [type |-> type, key |-> key]
<1>1. ReadName(l.name) = FullName(name)  BY FullNameIsRead
<1>2. here \in Totals  BY DEF Totals
<1>3. at = here <=> l.type = type /\ key = FullName(name)  BY <1>1
<1>4. seen \in [Totals -> Int]  BY DEF TypeOK
<1>5. SeenOf(type, key) = seen[here] /\ SeenOf(type, key)' = seen'[here]
  BY DEF SeenOf
<1>6. seen' = IF at \in DOMAIN seen /\ Readable(l)
                THEN [seen EXCEPT ![at] = Reading(l, @)] ELSE seen
  BY DEF Sent
<1> HIDE DEF at, here
<1>7. CASE at = here /\ Readable(l)
  <2>1. seen' = [seen EXCEPT ![here] = Reading(l, seen[here])]
    BY <1>2, <1>4, <1>6, <1>7
  <2>2. seen'[here] = Reading(l, seen[here])  BY <1>2, <1>4, <2>1
  <2> QED  BY <1>3, <1>5, <1>7, <2>2, Zenon
<1>8. CASE ~(at = here /\ Readable(l))
  <2>1. seen'[here] = seen[here]  BY <1>2, <1>4, <1>6, <1>8
  <2> QED  BY <1>3, <1>5, <1>8, <2>1, Zenon
<1> QED  BY <1>7, <1>8

LEMMA AskedMoves ==
  ASSUME TypeOK, NEW kind \in {"c", "g"}, NEW name \in MetricNames, NEW total,
         Asked(kind, name, total), NEW type \in {"c", "g"}, NEW key \in Keys
  PROVE  AskedOf(type, key)' =
           IF kind = type /\ key = FullName(name) THEN total ELSE AskedOf(type, key)
<1> DEFINE at == [type |-> kind, key |-> FullName(name)]
           here == [type |-> type, key |-> key]
<1>1. at \in Totals /\ here \in Totals  BY NameInTotals DEF Totals
<1>2. at = here <=> kind = type /\ key = FullName(name)  OBVIOUS
<1>3. asked \in [Totals -> Int]  BY DEF TypeOK
<1>4. AskedOf(type, key) = asked[here] /\ AskedOf(type, key)' = asked'[here]
  BY DEF AskedOf
<1>5. asked' = [asked EXCEPT ![at] = total]  BY DEF Asked
<1> HIDE DEF at, here
<1>6. asked'[here] = IF at = here THEN total ELSE asked[here]  BY <1>1, <1>3, <1>5
<1> QED  BY <1>2, <1>4, <1>6, Zenon

LEMMA OfType ==
  ASSUME TypeOK, NEW type \in {"c", "g"}, NEW key \in Keys
  PROVE  SeenOf(type, key) \in Int /\ AskedOf(type, key) \in Int
<1>1. [type |-> type, key |-> key] \in Totals  BY DEF Totals
<1>2. asked \in [Totals -> Int] /\ seen \in [Totals -> Int]  BY DEF TypeOK
<1> QED  BY <1>1, <1>2 DEF SeenOf, AskedOf

LEMMA UndividedStays ==
  ASSUME [Next]_vars, Undivided'
  PROVE  Undivided /\ statsd' = statsd /\ Keys' = Keys
<1>1. ASSUME NEW l, Sent(l) PROVE statsd' = statsd  BY <1>1 DEF Sent
<1>2. ASSUME Next PROVE statsd' = statsd
  <2>1. ASSUME NEW name, NEW incr, NEW ignore, Counter(name, incr, ignore)
        PROVE  statsd' = statsd
    BY <1>1, <2>1, Zenon DEF Counter
  <2>2. ASSUME NEW name, NEW ms, NEW ignore, Timer(name, ms, ignore)
        PROVE  statsd' = statsd
    BY <1>1, <2>2, Zenon DEF Timer
  <2>3. ASSUME NEW name, NEW val, AdjustGauge(name, val) \/ SetGauge(name, val)
        PROVE  statsd' = statsd
    BY <1>1, <2>3, Zenon DEF AdjustGauge, SetGauge
  <2> QED  BY <1>2, <2>1, <2>2, <2>3, Zenon DEF Next
<1>3. ASSUME UNCHANGED vars PROVE statsd' = statsd  BY <1>3 DEF vars
<1>4. statsd' = statsd  BY <1>2, <1>3
<1> QED  BY <1>4 DEF Undivided, Keys

(* The rate of a gauge is none, and its value read as it was meant, unless *)
(* it is negative: then the line is not read.                              *)
LEMMA GaugeMoves ==
  ASSUME TypeOK, Undivided, GaugesButLowered, NEW name \in MetricNames, NEW key \in Keys,
         NEW val \in Int,
         \/ AdjustGauge(name, val) /\ val # 0
         \/ SetGauge(name, val)
  PROVE  SeenOf("g", key)' = AskedOf("g", key)' + lowered'[key]
<1>1. /\ SeenOf("g", key) \in Int /\ AskedOf("g", key) \in Int
      /\ lowered \in [Keys -> Nat] /\ FullName(name) \in Keys
      /\ SeenOf("g", key) = AskedOf("g", key) + lowered[key]
  BY OfType DEF TypeOK, Keys, FullName, GaugesButLowered
<1>2. CASE AdjustGauge(name, val) /\ val # 0
  <2> DEFINE l == Line("g", name, Sign(val), val, 100)
  <2>1. /\ Sent(l) /\ Asked("g", name, Total("g", name) + val)
        /\ lowered' = IF val < 0 THEN [lowered EXCEPT ![FullName(name)] = @ - val]
                       ELSE lowered
    BY <1>2 DEF AdjustGauge
  <2>2. l.type = "g" /\ l.name = FullName(name)  BY DEF Line
  <2>3. Readable(l) <=> val > 0  BY <1>2 DEF Line, Sign, Readable
  <2>4. val > 0 => Reading(l, SeenOf("g", key)) = SeenOf("g", key) + val
    BY DEF Line, Sign, Reading, Signed, Number
  <2> HIDE DEF l
  <2>5. SeenOf("g", key)' =
          IF key = FullName(name) /\ Readable(l)
            THEN Reading(l, SeenOf("g", key)) ELSE SeenOf("g", key)
    BY <2>1, <2>2, SentMoves
  <2>6. AskedOf("g", key)' =
          IF key = FullName(name) THEN Total("g", name) + val ELSE AskedOf("g", key)
    BY <2>1, AskedMoves
  <2>7. key = FullName(name) => Total("g", name) = AskedOf("g", key)
    BY DEF Total, AskedOf
  <2>8. lowered'[key] = IF key = FullName(name) /\ val < 0 THEN lowered[key] - val
                        ELSE lowered[key]
    BY <1>1, <2>1
  <2>9. lowered[key] \in Int  BY <1>1
  <2>10. CASE key # FullName(name)  BY <1>1, <2>5, <2>6, <2>8, <2>10
  <2>11. CASE key = FullName(name) /\ val > 0
    BY <1>1, <2>3, <2>4, <2>5, <2>6, <2>7, <2>8, <2>9, <2>11
  <2>12. CASE key = FullName(name) /\ ~(val > 0)
    BY <1>1, <1>2, <2>3, <2>5, <2>6, <2>7, <2>8, <2>9, <2>12
  <2> QED  BY <2>10, <2>11, <2>12
<1>3. CASE SetGauge(name, val)
  <2> DEFINE l == Line("g", name, "", NotNegative(val), 100)
             set == IF val < 0 THEN 0 ELSE val
  <2>1. /\ Sent(l) /\ Asked("g", name, set)
        /\ lowered' = [lowered EXCEPT ![FullName(name)] = 0]
    BY <1>3 DEF SetGauge
  <2>2. l.type = "g" /\ l.name = FullName(name) /\ Readable(l)
    BY DEF Line, Readable
  <2>3. Reading(l, SeenOf("g", key)) = set /\ set \in Int
    BY DEF Line, Reading, Signed, Number, NotNegative
  <2> HIDE DEF l, set
  <2>4. SeenOf("g", key)' =
          IF key = FullName(name) THEN set ELSE SeenOf("g", key)
    BY <2>1, <2>2, <2>3, SentMoves
  <2>5. AskedOf("g", key)' = IF key = FullName(name) THEN set ELSE AskedOf("g", key)
    BY <2>1, AskedMoves
  <2>6. lowered'[key] = IF key = FullName(name) THEN 0 ELSE lowered[key]
    BY <1>1, <2>1
  <2> QED  BY <1>1, <2>3, <2>4, <2>5, <2>6
<1> QED  BY <1>2, <1>3

(* Counters and timers are not gauges.                                     *)
LEMMA GaugeStays ==
  ASSUME TypeOK, Undivided, GaugesButLowered, NEW name \in MetricNames, NEW key \in Keys,
         \/ \E incr \in Incrs, ignore \in BOOLEAN : Counter(name, incr, ignore)
         \/ \E ms \in Times, ignore \in BOOLEAN : Timer(name, ms, ignore)
  PROVE  SeenOf("g", key)' = AskedOf("g", key)' + lowered'[key]
<1>1. SeenOf("g", key) = AskedOf("g", key) + lowered[key]  BY DEF GaugesButLowered
<1>2. ASSUME NEW l, Sent(l), l.type # "g", l.name = FullName(name)
      PROVE  SeenOf("g", key)' = SeenOf("g", key)
  BY <1>2, SentMoves
<1>3. ASSUME NEW incr \in Incrs, NEW ignore \in BOOLEAN, Counter(name, incr, ignore)
      PROVE  SeenOf("g", key)' = AskedOf("g", key)' + lowered'[key]
  <2>1. PICK rate : Sent(Line("c", name, "", incr, rate))  BY <1>3 DEF Counter
  <2>2. SeenOf("g", key)' = SeenOf("g", key)
    <3> DEFINE l == Line("c", name, "", incr, rate)
    <3>1. Sent(l) /\ l.type # "g" /\ l.name = FullName(name)  BY <2>1 DEF Line
    <3> HIDE DEF l
    <3> QED  BY <1>2, <3>1
  <2>3. /\ Asked("c", name, Total("c", name) + incr * Each(SamplingOf(ignore)))
        /\ lowered' = lowered
    BY <1>3 DEF Counter
  <2>4. AskedOf("g", key)' = AskedOf("g", key)  BY <2>3, AskedMoves
  <2> QED  BY <1>1, <2>2, <2>3, <2>4
<1>4. ASSUME NEW ms \in Times, NEW ignore \in BOOLEAN, Timer(name, ms, ignore)
      PROVE  SeenOf("g", key)' = AskedOf("g", key)' + lowered'[key]
  <2>1. PICK rate : Sent(Line("ms", name, "", Time(ms), rate))  BY <1>4 DEF Timer
  <2>2. SeenOf("g", key)' = SeenOf("g", key)
    <3> DEFINE l == Line("ms", name, "", Time(ms), rate)
    <3>1. Sent(l) /\ l.type # "g" /\ l.name = FullName(name)  BY <2>1 DEF Line
    <3> HIDE DEF l
    <3> QED  BY <1>2, <3>1
  <2>3. asked' = asked /\ lowered' = lowered  BY <1>4 DEF Timer
  <2> QED  BY <1>1, <2>2, <2>3 DEF AskedOf
<1> QED  BY <1>3, <1>4

(* What the server has of a gauge is what callers asked for, but for what  *)
(* it was to be lowered by since it was last set, however it is set and    *)
(* adjusted and whatever is sent in between (write_metric()).              *)
THEOREM GaugesOffByLowered == Spec => []GaugesButLowered
<1>1. Init => GaugesButLowered
  <2> SUFFICES ASSUME Init, NEW key \in Keys
               PROVE  SeenOf("g", key) = AskedOf("g", key) + lowered[key]
    BY DEF GaugesButLowered
  <2>1. [type |-> "g", key |-> key] \in Totals  BY DEF Totals
  <2>2. SeenOf("g", key) = 0 /\ AskedOf("g", key) = 0 /\ lowered[key] = 0
    BY <2>1 DEF Init, SeenOf, AskedOf
  <2> QED  BY <2>2
<1>2. TypeOK /\ GaugesButLowered /\ [Next]_vars => GaugesButLowered'
  <2> SUFFICES ASSUME TypeOK, GaugesButLowered, [Next]_vars, Undivided', NEW key \in Keys'
               PROVE  SeenOf("g", key)' = AskedOf("g", key)' + lowered'[key]
    BY DEF GaugesButLowered
  <2>1. Undivided /\ key \in Keys  BY UndividedStays
  <2>2. CASE Next
    <3>1. PICK name \in MetricNames :
            \/ \E incr \in Incrs, ignore \in BOOLEAN : Counter(name, incr, ignore)
            \/ \E ms \in Times, ignore \in BOOLEAN : Timer(name, ms, ignore)
            \/ \E val \in Adjustments : AdjustGauge(name, val)
            \/ \E val \in Settings : SetGauge(name, val)
      BY <2>2 DEF Next
    <3>2. ASSUME NEW val \in Adjustments, AdjustGauge(name, val)
          PROVE  SeenOf("g", key)' = AskedOf("g", key)' + lowered'[key]
      <4>1. val \in Int /\ val # 0  BY MetricAssumption
      <4> QED  BY <2>1, <3>2, <4>1, GaugeMoves
    <3>3. ASSUME NEW val \in Settings, SetGauge(name, val)
          PROVE  SeenOf("g", key)' = AskedOf("g", key)' + lowered'[key]
      <4>1. val \in Int  BY MetricAssumption
      <4> QED  BY <2>1, <3>3, <4>1, GaugeMoves
    <3> QED  BY <2>1, <3>1, <3>2, <3>3, GaugeStays
  <2>3. CASE UNCHANGED vars
    BY <2>1, <2>3 DEF vars, GaugesButLowered, SeenOf, AskedOf
  <2> QED  BY <2>2, <2>3
<1> QED  BY <1>1, <1>2, TypeCorrect, PTL DEF Spec
-----------------------------------------------------------------------------
(* What is said of a counter, of a number of events given and meant.       *)
Near(given, meant) ==
  /\ statsd.sampling % 10 = 0 => given = meant
  /\ statsd.sampling >= 10 => 3 * meant <= 4 * given /\ 2 * given <= 3 * meant

(* An event stands, on the server, for as many as were meant by it, or so. *)
LEMMA EachNear ==
  ASSUME NEW ignore \in BOOLEAN, TypeOK, NEW rate \in Rates(SamplingOf(ignore)), rate > 0
  PROVE  Near(Each(10 * rate), Each(SamplingOf(ignore)))
<1> DEFINE a == SamplingOf(ignore)
           b == 10 * rate
<1>1. a \in Nat \ {0} /\ b \in Nat \ {0}
      /\ (1000 * Unit) % a = 0 /\ (1000 * Unit) % b = 0
  BY RatesDivide
<1>2. statsd.sampling % 10 = 0 => a = b  BY RateType
<1>3. statsd.sampling >= 10 => 2 * a <= 3 * b /\ 3 * b <= 4 * a  BY RateType
<1> HIDE DEF a, b
<1>4. statsd.sampling >= 10 => 3 * Each(a) <= 4 * Each(b)
  BY <1>1, <1>3, EachCompared
<1>5. statsd.sampling >= 10 => 2 * Each(b) <= 3 * Each(a)
  BY <1>1, <1>3, EachCompared
<1> QED  BY <1>2, <1>4, <1>5 DEF Near, a, b

LEMMA NearGrows ==
  ASSUME NEW given \in Int, NEW meant \in Int, NEW x \in Nat, NEW y \in Nat, NEW n \in Nat,
         Near(given, meant), Near(x, y)
  PROVE  Near(given + n * x, meant + n * y)
<1>1. n * x \in Nat /\ n * y \in Nat  OBVIOUS
<1>2. statsd.sampling % 10 = 0 => n * x = n * y  BY DEF Near
<1>3. ASSUME statsd.sampling >= 10
      PROVE  3 * (n * y) <= 4 * (n * x) /\ 2 * (n * x) <= 3 * (n * y)
  <2>1. 3 * y <= 4 * x /\ 2 * x <= 3 * y  BY <1>3 DEF Near
  <2>2. n * (3 * y) <= n * (4 * x) /\ n * (2 * x) <= n * (3 * y)  BY <2>1, Scaled
  <2>3. /\ n * (3 * y) = 3 * (n * y) /\ n * (4 * x) = 4 * (n * x)
        /\ n * (2 * x) = 2 * (n * x)
    OBVIOUS
  <2> QED  BY <2>2, <2>3
<1> DEFINE nx == n * x
           ny == n * y
<1> HIDE DEF nx, ny
<1>4. Near(given + nx, meant + ny)  BY <1>1, <1>2, <1>3 DEF Near, nx, ny
<1> QED  BY <1>4 DEF nx, ny

LEMMA CountMoves ==
  ASSUME TypeOK, Undivided, CountsNear, NEW name \in MetricNames, NEW key \in Keys,
         NEW incr \in Incrs, NEW ignore \in BOOLEAN, Counter(name, incr, ignore)
  PROVE  Near(SeenOf("c", key)', AskedOf("c", key)')
<1> DEFINE given == SeenOf("c", key)
           meant == AskedOf("c", key)
           each == Each(SamplingOf(ignore))
<1>1. /\ given \in Int /\ meant \in Int /\ incr \in Nat
      /\ Near(given, meant)
  BY OfType, MetricAssumption DEF CountsNear, Near
<1>2. PICK rate \in Rates(SamplingOf(ignore)) : Sent(Line("c", name, "", incr, rate))
  BY DEF Counter
<1> DEFINE l == Line("c", name, "", incr, rate)
<1>3. l.type = "c" /\ l.name = FullName(name) /\ l.rate = rate  BY DEF Line
<1>4. Readable(l) <=> rate > 0  BY <1>1 DEF Line, Readable
<1>5. Reading(l, given) = given + incr * Each(10 * rate)
  BY <1>1 DEF Line, Reading, Number
<1>6. Sent(l)  BY <1>2
<1> HIDE DEF l
<1>7. given' = IF key = FullName(name) /\ Readable(l) THEN Reading(l, given) ELSE given
  BY <1>3, <1>6, SentMoves
<1>8. meant' = IF key = FullName(name) THEN meant + incr * each ELSE meant
  <2>1. Asked("c", name, Total("c", name) + incr * each)  BY DEF Counter
  <2>2. meant' = IF key = FullName(name) THEN Total("c", name) + incr * each ELSE meant
    BY <2>1, AskedMoves
  <2>3. key = FullName(name) => Total("c", name) = meant  BY DEF Total, AskedOf
  <2> QED  BY <2>2, <2>3
<1>9. CASE key # FullName(name)
  <2>1. given' = given /\ meant' = meant  BY <1>7, <1>8, <1>9
  <2> QED  BY <1>1, <2>1
<1>10. CASE key = FullName(name) /\ rate > 0
  <2>1. Near(Each(10 * rate), each) /\ Each(10 * rate) \in Nat /\ each \in Nat
    BY <1>10, EachNear, RatesDivide
  <2>2. Near(given + incr * Each(10 * rate), meant + incr * each)
    <3> HIDE DEF given, meant, each
    <3> QED  BY <1>1, <2>1, NearGrows
  <2>3. given' = given + incr * Each(10 * rate) /\ meant' = meant + incr * each
    BY <1>4, <1>5, <1>7, <1>8, <1>10
  <2> QED  BY <2>2, <2>3
<1>11. CASE ~(rate > 0)
  <2>1. statsd.sampling \in 1..1000
    <3>1. statsd \in Clients  BY DEF TypeOK
    <3> QED  BY <3>1, MetricAssumption
  <2>2. statsd.sampling < 10  BY <1>11, <2>1, RateType
  <2>3. statsd.sampling % 10 # 0  BY <2>1, <2>2
  <2> QED  BY <2>1, <2>2, <2>3 DEF Near
<1> QED  BY <1>9, <1>10, <1>11

(* Timers and gauges leave the counters alone.                             *)
LEMMA CountStays ==
  ASSUME TypeOK, Undivided, CountsNear, NEW name \in MetricNames, NEW key \in Keys,
         \/ \E ms \in Times, ignore \in BOOLEAN : Timer(name, ms, ignore)
         \/ \E val \in Adjustments : AdjustGauge(name, val)
         \/ \E val \in Settings : SetGauge(name, val)
  PROVE  Near(SeenOf("c", key)', AskedOf("c", key)')
<1>1. Near(SeenOf("c", key), AskedOf("c", key))  BY DEF CountsNear, Near
<1>2. ASSUME NEW type \in {"ms", "g"}, NEW sign, NEW val, NEW rate,
             Sent(Line(type, name, sign, val, rate))
      PROVE  SeenOf("c", key)' = SeenOf("c", key)
  <2> DEFINE l == Line(type, name, sign, val, rate)
  <2>1. l.type # "c" /\ l.name = FullName(name) /\ Sent(l)  BY <1>2 DEF Line
  <2> HIDE DEF l
  <2> QED  BY <2>1, SentMoves
<1>3. ASSUME NEW total, Asked("g", name, total) \/ asked' = asked
      PROVE  AskedOf("c", key)' = AskedOf("c", key)
  <2>1. CASE Asked("g", name, total)  BY <2>1, AskedMoves
  <2>2. CASE asked' = asked  BY <2>2 DEF AskedOf
  <2> QED  BY <1>3, <2>1, <2>2
<1>4. CASE \E ms \in Times, ignore \in BOOLEAN : Timer(name, ms, ignore)
  <2>1. SeenOf("c", key)' = SeenOf("c", key)  BY <1>2, <1>4 DEF Timer
  <2>2. asked' = asked  BY <1>4 DEF Timer
  <2>3. AskedOf("c", key)' = AskedOf("c", key)  BY <1>3, <2>2
  <2> QED  BY <1>1, <2>1, <2>3
<1>5. CASE \E val \in Adjustments : AdjustGauge(name, val)
  <2>1. SeenOf("c", key)' = SeenOf("c", key)  BY <1>2, <1>5 DEF AdjustGauge
  <2>2. AskedOf("c", key)' = AskedOf("c", key)  BY <1>3, <1>5 DEF AdjustGauge
  <2> QED  BY <1>1, <2>1, <2>2
<1>6. CASE \E val \in Settings : SetGauge(name, val)
  <2>1. SeenOf("c", key)' = SeenOf("c", key)  BY <1>2, <1>6 DEF SetGauge
  <2>2. AskedOf("c", key)' = AskedOf("c", key)  BY <1>3, <1>6 DEF SetGauge
  <2> QED  BY <1>1, <2>1, <2>2
<1> QED  BY <1>4, <1>5, <1>6

(* A counter's total on the server is what was asked for, for samplings of *)
(* a whole percentage; for others from one percent on it is off by what    *)
(* the two digits of the rate leave out, at most a third or a half.        *)
THEOREM CountsAsMeant == Spec => []CountsNear
<1>1. Init => CountsNear
  <2> SUFFICES ASSUME Init, NEW key \in Keys
               PROVE  Near(SeenOf("c", key), AskedOf("c", key))
    BY DEF CountsNear, Near
  <2>1. [type |-> "c", key |-> key] \in Totals  BY DEF Totals
  <2>2. SeenOf("c", key) = 0 /\ AskedOf("c", key) = 0
    BY <2>1 DEF Init, SeenOf, AskedOf
  <2> QED  BY <2>2 DEF Near
<1>2. TypeOK /\ CountsNear /\ [Next]_vars => CountsNear'
  <2> SUFFICES ASSUME TypeOK, CountsNear, [Next]_vars, Undivided'
               PROVE  CountsNear'
    BY DEF CountsNear
  <2>1. Undivided /\ statsd' = statsd /\ Keys' = Keys  BY UndividedStays
  <2> SUFFICES ASSUME NEW key \in Keys
               PROVE  Near(SeenOf("c", key)', AskedOf("c", key)')
    BY <2>1 DEF CountsNear, Near
  <2>2. CASE Next
    <3>1. PICK name \in MetricNames :
            \/ \E incr \in Incrs, ignore \in BOOLEAN : Counter(name, incr, ignore)
            \/ \E ms \in Times, ignore \in BOOLEAN : Timer(name, ms, ignore)
            \/ \E val \in Adjustments : AdjustGauge(name, val)
            \/ \E val \in Settings : SetGauge(name, val)
      BY <2>2 DEF Next
    <3> QED  BY <2>1, <3>1, CountMoves, CountStays
  <2>3. CASE UNCHANGED vars
    BY <2>1, <2>3 DEF vars, CountsNear, Near, SeenOf, AskedOf
  <2> QED  BY <2>2, <2>3
<1> QED  BY <1>1, <1>2, TypeCorrect, PTL DEF Spec
=============================================================================
