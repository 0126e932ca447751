------------------------- MODULE StatsdPipe_proofs --------------------------
(***************************************************************************)
(* Proofs that the client of StatsdClient is, over UDP, the lossy pipe of  *)
(* MetricPipe, which loses at a close only what a handler left in a buffer *)
(* that the send it returned to cleared, and reads memory that is gone     *)
(* only to repeat what it sent: for every packet size, every set of metric *)
(* lengths and any bounds.                                                 *)
(***************************************************************************)
EXTENDS StatsdClient_proofs

Udp == Transports = {FALSE}

(* A send will be resumed with the buffer as it is now only if no handler  *)
(* above it has written.                                                   *)
Resumable(s, i) ==
  /\ ~IsHandler(s[i])
  /\ \A j \in DOMAIN s : j > i => s[j].then = "signal"

(* Until a handler has returned, it then has the whole of that buffer.     *)
SendsWhole(s, buf) == \A i \in DOMAIN s : Resumable(s, i) => s[i].buf = buf

(* Later on it has all of it but what returning handlers left behind.      *)
Covers(s, waiting, left) ==
  \A i \in DOMAIN s : Resumable(s, i) => waiting \subseteq Range(s[i].buf.ids) \cup left

(* What was sent, and after it what waits, is in the order of storing.     *)
Ordered(sent, waiting, n) ==
  /\ Pipe!Increasing(sent)
  /\ Pipe!Increasing(waiting)
  /\ \A i \in DOMAIN sent, j \in DOMAIN waiting : sent[i] < waiting[j]
  /\ \A i \in DOMAIN sent : sent[i] < n
  /\ \A j \in DOMAIN waiting : waiting[j] < n

(* A buffer is always in that order, whatever was sent before.             *)
Batch(buf, n) == Pipe!Increasing(buf.ids) /\ \A k \in DOMAIN buf.ids : buf.ids[k] < n

(* The stack s of calls, where buf is the client's buffer, the metrics in  *)
(* given were in a sendto() and the pools in gone are destroyed.  What a   *)
(* frame holds is in each send above it and in the buffer, unless it was   *)
(* given to a sendto(): so it was, once a send above has returned, and the *)
(* pool of a frame goes away only then.                                    *)
Nests(s, given) ==
  \A i, j \in DOMAIN s : /\ i < j /\ ~IsHandler(s[j])
                        => Range(s[i].buf.ids) \subseteq Range(s[j].buf.ids) \cup given

Within(s, buf, given) ==
  \A i \in DOMAIN s : Range(s[i].buf.ids) \subseteq Range(buf.ids) \cup given

Stale(s, given, gone) ==
  \A i \in DOMAIN s : s[i].buf.pool \in gone => Range(s[i].buf.ids) \subseteq given

Batches(s, n) == \A i \in DOMAIN s : Batch(s[i].buf, n)

Repeats(s, buf, given, gone, n) ==
  Nests(s, given) /\ Within(s, buf, given) /\ Stale(s, given, gone) /\ Batches(s, n)

(* Nothing stored is forgotten, but what returning handlers left behind.   *)
Kept(buf) == Stores \subseteq tried \cup Range(buf.ids) \cup stranded

(* The buffer's pool is one of those made so far, and still there.         *)
PoolLives ==
  /\ destroyed \subseteq Stores
  /\ metrics.pool < next
  /\ metrics.pool \notin destroyed

(* The same of the buffer that a metric is about to be stored in. *)
Waiting(buf, n, given, gone, left) ==
  /\ Batch(buf, n)
  /\ 1..(n - 1) \subseteq given \cup Range(buf.ids) \cup left
  /\ gone \subseteq 1..(n - 1)
  /\ buf.pool < n
  /\ buf.pool \notin gone

PipeInv ==
  /\ StackInv
  /\ ~statsd.use_tcp
  /\ Repeats(calls, metrics, tried, destroyed, next)
  /\ Batch(metrics, next)
  /\ Covers(calls, Range(metrics.ids), stranded)
  /\ Kept(metrics)
  /\ PoolLives
  /\ \A i \in DOMAIN delivered : delivered[i] < next
  /\ ~returned => SendsWhole(calls, metrics) /\ Ordered(delivered, metrics.ids, next)
-----------------------------------------------------------------------------
(* What waits may be sent, or not, and a metric stored behind it.          *)
LEMMA OrderedSent ==
  ASSUME NEW sent \in Seq(Ids), NEW waiting \in Seq(Ids), NEW n \in Ids,
         Ordered(sent, waiting, n)
  PROVE  Ordered(sent \o waiting, <<>>, n) /\ Ordered(sent, <<>>, n)
<1>1. Ordered(sent, <<>>, n)
  BY DEF Ordered, Pipe!Increasing
<1> DEFINE all == sent \o waiting
<1>2. all \in Seq(Ids) /\ Len(all) = Len(sent) + Len(waiting)
      /\ Len(sent) \in Nat /\ Len(waiting) \in Nat
  BY ConcatProperties, LenProperties
<1>3. /\ DOMAIN all = 1..(Len(sent) + Len(waiting))
      /\ DOMAIN sent = 1..Len(sent) /\ DOMAIN waiting = 1..Len(waiting)
  BY <1>2, LenProperties
<1>4. /\ \A i \in 1..Len(sent) : all[i] = sent[i]
      /\ \A i \in 1..Len(waiting) : all[Len(sent) + i] = waiting[i]
  BY <1>2, ConcatProperties
<1> HIDE DEF all
<1>5. /\ \A i, j \in 1..Len(sent) : i < j => all[i] < all[j]
      /\ \A i, j \in 1..Len(waiting) : i < j => all[Len(sent) + i] < all[Len(sent) + j]
      /\ \A i \in 1..Len(sent), j \in 1..Len(waiting) : all[i] < all[Len(sent) + j]
      /\ \A i \in 1..Len(sent) : all[i] < n
      /\ \A i \in 1..Len(waiting) : all[Len(sent) + i] < n
  BY <1>2, <1>3, <1>4 DEF Ordered, Pipe!Increasing
<1>6. \A i \in DOMAIN all : i \in 1..Len(sent)
                            \/ (i - Len(sent) \in 1..Len(waiting)
                                /\ i = Len(sent) + (i - Len(sent)))
  BY <1>2, <1>3
<1>7. \A i, j \in DOMAIN all : i < j => all[i] < all[j]
  <2> SUFFICES ASSUME NEW i \in DOMAIN all, NEW j \in DOMAIN all, i < j
               PROVE  all[i] < all[j]
    OBVIOUS
  <2> i \in Int /\ j \in Int
    BY <1>2, <1>3
  <2>1. CASE i \in 1..Len(sent) /\ j \in 1..Len(sent)
    BY <1>5, <2>1
  <2>2. CASE i \in 1..Len(sent) /\ j \notin 1..Len(sent)
    BY <1>5, <1>6, <2>2
  <2>3. CASE i \notin 1..Len(sent)
    <3>1. i - Len(sent) \in 1..Len(waiting) /\ j - Len(sent) \in 1..Len(waiting)
      BY <1>2, <1>6, <2>3
    <3>2. all[Len(sent) + (i - Len(sent))] < all[Len(sent) + (j - Len(sent))]
      BY <1>2, <1>5, <3>1
    <3>3. QED
      BY <1>2, <3>2
  <2>4. QED
    BY <2>1, <2>2, <2>3
<1>8. \A i \in DOMAIN all : all[i] < n
  BY <1>5, <1>6
<1>9. Ordered(all, <<>>, n)
  BY <1>7, <1>8 DEF Ordered, Pipe!Increasing
<1>10. QED
  BY <1>1, <1>9 DEF all

LEMMA OrderedStored ==
  ASSUME NEW sent \in Seq(Ids), NEW waiting \in Seq(Ids), NEW n \in Ids,
         Ordered(sent, waiting, n)
  PROVE  Ordered(sent, Append(waiting, n), n + 1)
<1> DEFINE all == Append(waiting, n)
<1>1. /\ Len(waiting) \in Nat /\ DOMAIN waiting = 1..Len(waiting)
      /\ all \in Seq(Ids) /\ Len(all) = Len(waiting) + 1
  BY AppendProperties, LenProperties
<1>2. DOMAIN all = 1..(Len(waiting) + 1)
  BY <1>1, LenProperties
<1>3. /\ \A i \in 1..Len(waiting) : all[i] = waiting[i]
      /\ all[Len(waiting) + 1] = n
  BY AppendProperties
<1>4. /\ \A i \in DOMAIN sent : sent[i] \in Nat
      /\ \A i \in DOMAIN waiting : waiting[i] \in Nat
      /\ n \in Nat
  BY ElementOfSeq, LenProperties DEF Ids
<1> HIDE DEF all
<1>5. Pipe!Increasing(all)
  BY <1>1, <1>2, <1>3 DEF Ordered, Pipe!Increasing
<1>6. \A i \in DOMAIN sent, j \in DOMAIN all : sent[i] < all[j]
  BY <1>1, <1>2, <1>3 DEF Ordered
<1>7. /\ \A i \in DOMAIN sent : sent[i] < n + 1
      /\ \A j \in DOMAIN all : all[j] < n + 1
  BY <1>1, <1>2, <1>3, <1>4 DEF Ordered
<1>8. QED
  BY <1>5, <1>6, <1>7 DEF Ordered, Pipe!Increasing, all

(* No send below a handler that has written is resumed. *)
LEMMA NoneResumable ==
  ASSUME NEW s \in Seq(Frames), s # <<>> => s[Len(s)].then = "handler", NEW buf
  PROVE  SendsWhole(s, buf)
<1>1. DOMAIN s = 1..Len(s) /\ Len(s) \in Nat
  BY LenProperties
<1>2. ASSUME NEW i \in DOMAIN s PROVE ~Resumable(s, i)
  <2>1. Len(s) \in DOMAIN s /\ i <= Len(s) /\ s # <<>>
    BY <1>1, EmptySeq
  <2>2. s[Len(s)].then = "handler"
    BY <2>1
  <2>3. CASE i = Len(s)
    BY <2>2, <2>3 DEF Resumable, IsHandler
  <2>4. CASE i < Len(s)
    BY <2>1, <2>2, <2>4 DEF Resumable
  <2>5. QED
    BY <1>1, <2>1, <2>3, <2>4
<1>3. QED
  BY <1>2 DEF SendsWhole

LEMMA WholePushed ==
  ASSUME NEW rest, NEW s, NEW frame, OnTop(frame, rest, s),
         rest # <<>> => rest[Len(rest)].then = "handler"
  PROVE  SendsWhole(s, frame.buf)
<1>1. ASSUME NEW i \in DOMAIN s, i # Len(s) PROVE ~Resumable(s, i)
  <2>1. /\ Len(rest) \in Nat /\ i \in 1..Len(rest)
        /\ Len(rest) \in DOMAIN s /\ s[Len(rest)] = rest[Len(rest)] /\ rest # <<>>
    BY <1>1 DEF OnTop
  <2>2. CASE i = Len(rest)
    BY <2>1, <2>2 DEF Resumable, IsHandler
  <2>3. CASE i < Len(rest)
    BY <2>1, <2>3 DEF Resumable
  <2>4. QED
    BY <2>1, <2>2, <2>3
<1>2. s[Len(s)] = frame
  BY DEF OnTop
<1>3. QED
  BY <1>1, <1>2 DEF SendsWhole

LEMMA WholeInterrupted ==
  ASSUME NEW rest, NEW s, NEW frame, OnTop(frame, rest, s),
         frame.then = "signal", NEW buf
  PROVE  SendsWhole(rest, buf) <=> SendsWhole(s, buf)
<1>1. ~Resumable(s, Len(s)) /\ Len(s) = Len(rest) + 1
  BY DEF OnTop, Resumable, IsHandler
<1>2. \A i \in DOMAIN rest : s[i] = rest[i]
  BY DEF OnTop
<1>3. ASSUME NEW i \in DOMAIN rest PROVE Resumable(s, i) <=> Resumable(rest, i)
  BY DEF OnTop, Resumable
<1>4. DOMAIN rest \subseteq DOMAIN s
      /\ \A i \in DOMAIN s : i = Len(s) \/ i \in DOMAIN rest
  BY DEF OnTop
<1>5. QED
  BY <1>1, <1>2, <1>3, <1>4 DEF SendsWhole

LEMMA WholeCovers ==
  ASSUME NEW s, NEW buf, NEW left, SendsWhole(s, buf)
  PROVE  Covers(s, Range(buf.ids), left)
  BY DEF SendsWhole, Covers

LEMMA CoversInterrupted ==
  ASSUME NEW rest, NEW s, NEW frame, OnTop(frame, rest, s),
         frame.then = "signal", NEW waiting, NEW left
  PROVE  Covers(rest, waiting, left) <=> Covers(s, waiting, left)
<1>1. ~Resumable(s, Len(s)) /\ Len(s) = Len(rest) + 1
  BY DEF OnTop, Resumable, IsHandler
<1>2. \A i \in DOMAIN rest : s[i] = rest[i]
  BY DEF OnTop
<1>3. ASSUME NEW i \in DOMAIN rest PROVE Resumable(s, i) <=> Resumable(rest, i)
  BY DEF OnTop, Resumable
<1>4. DOMAIN rest \subseteq DOMAIN s
      /\ \A i \in DOMAIN s : i = Len(s) \/ i \in DOMAIN rest
  BY DEF OnTop
<1>5. QED
  BY <1>1, <1>2, <1>3, <1>4 DEF Covers

(* The send that a handler returns to is the only one that is resumed, and *)
(* what it does not have is left behind.                                   *)
LEMMA CoversReturned ==
  ASSUME NEW s, DOMAIN s = 1..Len(s), Len(s) \in Nat, ~IsHandler(s[Len(s)]),
         NEW waiting, NEW left
  PROVE  Covers(s, waiting, left \cup (waiting \ Range(s[Len(s)].buf.ids)))
<1>1. ASSUME NEW i \in DOMAIN s, Resumable(s, i) PROVE i = Len(s)
  <2>1. i <= Len(s) /\ Len(s) \in DOMAIN s /\ s[Len(s)].then # "signal"
    BY DEF IsHandler
  <2>2. QED
    BY <1>1, <2>1 DEF Resumable
<1>2. QED
  BY <1>1 DEF Covers

(* Pushing the buffer, or a handler, which holds nothing. *)
LEMMA RepeatsPushed ==
  ASSUME NEW rest, NEW s, NEW frame, OnTop(frame, rest, s),
         NEW buf, NEW given, NEW gone, NEW n, Repeats(rest, buf, given, gone, n),
         Batch(frame.buf, n),
         \/ frame.buf = buf /\ buf.pool \notin gone
         \/ IsHandler(frame) /\ frame.buf.ids = <<>>
  PROVE  Repeats(s, buf, given, gone, n)
<1> DEFINE m == Len(rest)
<1>1. /\ m \in Nat /\ DOMAIN rest = 1..m /\ DOMAIN s = 1..(m + 1)
      /\ \A i \in 1..m : s[i] = rest[i]
      /\ s[m + 1] = frame
  BY DEF OnTop
<1> HIDE DEF m
<1>2. /\ \A i \in DOMAIN s : (i \in DOMAIN rest /\ s[i] = rest[i]) \/ (i = m + 1 /\ s[i] = frame)
      /\ \A i, j \in DOMAIN s : i < j => i \in DOMAIN rest
  <2>1. \A i \in 1..(m + 1) : i \in 1..m \/ i = m + 1
    BY <1>1
  <2>2. \A i, j \in 1..(m + 1) : i < j => i \in 1..m
    BY <1>1
  <2>3. ASSUME NEW i \in DOMAIN s
        PROVE  (i \in DOMAIN rest /\ s[i] = rest[i]) \/ (i = m + 1 /\ s[i] = frame)
    <3>1. i \in 1..m \/ i = m + 1
      BY <1>1, <2>1, <2>3
    <3>2. QED
      BY <1>1, <3>1
  <2>4. \A i, j \in DOMAIN s : i < j => i \in DOMAIN rest
    BY <1>1, <2>2
  <2>5. QED
    BY <2>3, <2>4
<1>3. \/ frame.buf = buf /\ buf.pool \notin gone
      \/ Range(frame.buf.ids) = {}
  <2>1. CASE frame.buf = buf /\ buf.pool \notin gone
    BY <2>1
  <2>2. CASE frame.buf.ids = <<>>
    BY <2>2, RangeOfNone
  <2>3. QED
    BY <2>1, <2>2
<1>4. Nests(s, given)
  <2> SUFFICES ASSUME NEW i \in DOMAIN s, NEW j \in DOMAIN s, i < j, ~IsHandler(s[j])
               PROVE  Range(s[i].buf.ids) \subseteq Range(s[j].buf.ids) \cup given
    BY DEF Nests
  <2>1. i \in DOMAIN rest /\ s[i] = rest[i]
    BY <1>1, <1>2
  <2>2. CASE j \in DOMAIN rest /\ s[j] = rest[j]
    BY <2>1, <2>2 DEF Repeats, Nests
  <2>3. CASE s[j] = frame
    <3>1. frame.buf = buf
      BY <2>3
    <3>2. QED
      BY <2>1, <2>3, <3>1 DEF Repeats, Within
  <2>4. QED
    BY <1>2, <2>2, <2>3
<1>5. Within(s, buf, given)
  BY <1>2, <1>3 DEF Repeats, Within
<1>6. Stale(s, given, gone)
  BY <1>2, <1>3 DEF Repeats, Stale
<1>7. Batches(s, n)
  BY <1>2 DEF Repeats, Batches
<1>8. QED
  BY <1>4, <1>5, <1>6, <1>7 DEF Repeats

LEMMA RepeatsPopped ==
  ASSUME NEW rest, NEW s, NEW frame, OnTop(frame, rest, s),
         NEW buf, NEW given, NEW gone, NEW n, Repeats(s, buf, given, gone, n)
  PROVE  Repeats(rest, buf, given, gone, n)
<1>1. DOMAIN rest \subseteq DOMAIN s /\ \A i \in DOMAIN rest : s[i] = rest[i]
  BY DEF OnTop
<1>2. QED
  BY <1>1 DEF Repeats, Nests, Within, Stale, Batches

(* A handler that writes its first metric changes no buffer of the stack.  *)
LEMMA RepeatsCaller ==
  ASSUME calls \in Seq(Frames), InControl,
         NEW buf, NEW given, NEW gone, NEW n, Repeats(calls, buf, given, gone, n)
  PROVE  Repeats(Caller, buf, given, gone, n)
<1>1. CASE /\ OnTop(Woken, Rest, Caller) /\ OnTop(Top, Rest, calls)
           /\ IsHandler(Top) /\ Woken.then = "handler" /\ Woken.buf = Top.buf
  <2>1. /\ DOMAIN Caller = DOMAIN calls
        /\ \A i \in DOMAIN calls : \/ Caller[i] = calls[i]
                                   \/ /\ Caller[i].buf = calls[i].buf
                                      /\ IsHandler(Caller[i]) /\ IsHandler(calls[i])
    BY <1>1 DEF OnTop, IsHandler
  <2>2. \A i \in DOMAIN calls : /\ Caller[i].buf = calls[i].buf
                                /\ IsHandler(Caller[i]) <=> IsHandler(calls[i])
    BY <2>1
  <2>3. QED
    BY <2>1, <2>2 DEF Repeats, Nests, Within, Stale, Batches
<1>2. QED
  BY <1>1, Calling

(* When a send returns, everything below it was given to a sendto().       *)
LEMMA BelowIsTried ==
  ASSUME NEW rest, NEW s, NEW frame, OnTop(frame, rest, s), ~IsHandler(frame),
         NEW buf, NEW given, NEW gone, NEW n, Repeats(s, buf, given, gone, n),
         NEW more, NEW pools
  PROVE  Repeats(rest, more, given \cup Range(frame.buf.ids), pools, n)
<1>1. /\ DOMAIN rest \subseteq DOMAIN s /\ Len(rest) + 1 \in DOMAIN s
      /\ s[Len(rest) + 1] = frame
      /\ \A i \in DOMAIN rest : i < Len(rest) + 1 /\ s[i] = rest[i]
  BY DEF OnTop
<1>2. \A i \in DOMAIN rest : Range(rest[i].buf.ids) \subseteq given \cup Range(frame.buf.ids)
  BY <1>1 DEF Repeats, Nests
<1>3. Batches(rest, n)
  BY <1>1 DEF Repeats, Batches
<1>4. QED
  BY <1>2, <1>3 DEF Repeats, Nests, Within, Stale

LEMMA RangeOfAppend ==
  ASSUME NEW s \in Seq(Ids), NEW x \in Ids
  PROVE  Range(Append(s, x)) = Range(s) \cup {x}
<1> DEFINE t == Append(s, x)
<1>1. Len(s) \in Nat /\ DOMAIN s = 1..Len(s)
  BY LenProperties
<1>2. DOMAIN t = 1..(Len(s) + 1)
  BY AppendProperties, LenProperties
<1>3. (\A i \in 1..Len(s) : t[i] = s[i]) /\ t[Len(s) + 1] = x
  BY AppendProperties
<1> HIDE DEF t
<1>4. \A y : (\E i \in DOMAIN t : t[i] = y) <=> (\E i \in DOMAIN s : s[i] = y) \/ y = x
  BY <1>1, <1>2, <1>3
<1>5. Range(t) = Range(s) \cup {x}
  BY <1>4 DEF Range
<1>6. QED
  BY <1>5 DEF t

LEMMA StoresGrow ==
  ASSUME next \in Nat, next \in Ids, next' = next + 1
  PROVE  Stores' = Stores \cup {next} /\ next \notin Stores
<1>1. \A k : k \in 1..next <=> k \in 1..(next - 1) \/ k = next
  BY DEF Ids
<1>2. next \notin 1..(next - 1) /\ (next + 1) - 1 = next
  OBVIOUS
<1>3. Stores' = 1..next
  BY <1>2 DEF Stores
<1>4. QED
  BY <1>1, <1>2, <1>3 DEF Stores

(* A buffer that a metric is stored in, and the stack below. *)
LEMMA BatchStored ==
  ASSUME NEW buf \in Buffers, NEW n \in Ids, Batch(buf, n),
         NEW stored \in Buffers, stored.ids = Append(buf.ids, n)
  PROVE  Batch(stored, n + 1)
<1>1. Ordered(<<>>, buf.ids, n) /\ buf.ids \in Seq(Ids) /\ <<>> \in Seq(Ids)
  BY EmptySeq DEF Batch, Ordered, Pipe!Increasing, Buffers
<1>2. QED
  BY <1>1, OrderedStored DEF Batch, Ordered

LEMMA RepeatsStored ==
  ASSUME NEW s \in Seq(Frames), NEW buf, NEW stored, Range(buf.ids) \subseteq Range(stored.ids),
         NEW given, NEW gone, NEW n \in Ids, Repeats(s, buf, given, gone, n)
  PROVE  Repeats(s, stored, given, gone, n + 1)
<1>1. \A i \in DOMAIN s : \A k \in DOMAIN s[i].buf.ids : s[i].buf.ids[k] \in Nat
  <2> SUFFICES ASSUME NEW i \in DOMAIN s, NEW k \in DOMAIN s[i].buf.ids
               PROVE  s[i].buf.ids[k] \in Nat
    OBVIOUS
  <2>1. s[i] \in Frames
    BY ElementOfSeq, LenProperties
  <2>2. s[i].buf.ids \in Seq(Ids)
    BY <2>1 DEF Frames, Buffers
  <2>3. QED
    BY <2>2, ElementOfSeq, LenProperties DEF Ids
<1>2. Batches(s, n + 1)
  BY <1>1 DEF Repeats, Batches, Batch, Ids
<1>3. Within(s, stored, given)
  BY DEF Repeats, Within
<1>4. QED
  BY <1>2, <1>3 DEF Repeats

(* statsd_statsd_write() with room in buf for its metric. *)
LEMMA StoreKeeps ==
  ASSUME TypeOK, ~statsd.use_tcp, NEW buf \in Buffers, NEW size \in Sizes,
         NEW rest \in Seq(Frames), NEW now \in BOOLEAN, Store(rest, buf, size, now),
         rest # <<>> => rest[Len(rest)].then = "handler",
         NEW given, NEW gone, NEW left,
         Repeats(rest, buf, given, gone, next), Waiting(buf, next, given, gone, left)
  PROVE  /\ SendsWhole(calls', metrics')
         /\ Covers(calls', Range(metrics'.ids), left)
         /\ metrics'.ids = Append(buf.ids, next) /\ next' = next + 1
         /\ Repeats(calls', metrics', given, gone, next')
         /\ Waiting(metrics', next', given, gone, left)
<1>0. /\ Batch(buf, next) /\ Stores \subseteq given \cup Range(buf.ids) \cup left
      /\ gone \subseteq Stores /\ buf.pool < next /\ buf.pool \notin gone
  BY DEF Waiting, Stores
<1>1. next \in Ids /\ next \in Nat /\ next' = next + 1
  BY DEF TypeOK, Ids, Store
<1>2. buf.ids \in Seq(Ids) /\ buf.pool \in Nat
  BY DEF Buffers
<1>3. metrics' = Stored(buf, next, size) /\ metrics' \in Buffers
  BY <1>1, StoredType DEF Store
<1>4. Stores' = Stores \cup {next} /\ next \notin Stores
  BY <1>1, StoresGrow
<1>5. metrics'.ids = Append(buf.ids, next) /\ metrics'.pool \in {buf.pool, next}
  <2>1. CASE buf.ids # <<>>
    <3>1. metrics' = [ids |-> Append(buf.ids, next), len |-> buf.len + size.len + 1,
                      text |-> buf.text + 1 + size.text, pool |-> buf.pool]
      BY <1>3, <2>1 DEF Stored, Buffers
    <3>2. QED
      BY <3>1
  <2>2. CASE buf.ids = <<>>
    <3>1. metrics'.ids = <<next>> /\ metrics'.pool = next
      BY <1>3, <2>2 DEF Stored
    <3>2. Append(<<>>, next) = <<next>>
      OBVIOUS
    <3>3. QED
      BY <2>2, <3>1, <3>2
  <2>3. QED
    BY <2>1, <2>2
<1>6. Range(metrics'.ids) = Range(buf.ids) \cup {next}
  BY <1>1, <1>2, <1>5, RangeOfAppend
<1>8. SendsWhole(calls', metrics')
  <2>1. calls' = rest \/ calls' = Append(rest, Sending(metrics', "done"))
    BY <1>3 DEF Store
  <2>2. Sending(metrics', "done") \in Frames /\ Sending(metrics', "done").buf = metrics'
    BY <1>3, FrameTypes DEF Sending
  <2>3. QED
    BY <2>1, <2>2, NoneResumable, WholePushed, Pushed
<1>9. metrics'.pool < next' /\ metrics'.pool \notin gone
  BY <1>0, <1>1, <1>2, <1>4, <1>5
<1>10. Batch(metrics', next')
  BY <1>0, <1>1, <1>3, <1>5, BatchStored
<1>11. Repeats(calls', metrics', given, gone, next')
  <2>1. Repeats(rest, metrics', given, gone, next')
    BY <1>1, <1>6, RepeatsStored
  <2>2. calls' = rest \/ calls' = Append(rest, Sending(metrics', "done"))
    BY <1>3 DEF Store
  <2>3. Sending(metrics', "done") \in Frames /\ Sending(metrics', "done").buf = metrics'
    BY <1>3, FrameTypes DEF Sending
  <2>4. QED
    BY <1>9, <1>10, <2>1, <2>2, <2>3, RepeatsPushed, Pushed
<1>12. Covers(calls', Range(metrics'.ids), left)
  BY <1>8, WholeCovers
<1>13. Waiting(metrics', next', given, gone, left)
  <2>1. Stores' \subseteq given \cup Range(metrics'.ids) \cup left /\ gone \subseteq Stores'
    BY <1>0, <1>4, <1>6
  <2>2. QED
    BY <1>9, <1>10, <2>1 DEF Waiting, Stores
<1>14. QED
  BY <1>1, <1>5, <1>8, <1>11, <1>12, <1>13

(* A send that returns leaves nothing of the buffer but what returning     *)
(* handlers left behind, and what is below it was given to a sendto().     *)
LEMMA SendtoKeeps ==
  ASSUME PipeInv, NEW ok \in BOOLEAN, SendtoReturns(ok), ClearPool
  PROVE  /\ ~returned => Top.buf = metrics
         /\ Batch(Top.buf, next) /\ Top.buf.ids \in Seq(Ids)
         /\ delivered' \in Seq(Ids)
         /\ \A i \in DOMAIN delivered' : delivered'[i] < next
         /\ ~returned => Ordered(delivered', <<>>, next)
         /\ Stores \subseteq tried' \cup stranded
         /\ destroyed' \subseteq Stores
         /\ \A more : Repeats(Rest, more, tried', destroyed', next)
         /\ Rest \in Seq(Frames) /\ Top \in Frames
         /\ Rest # <<>> => Rest[Len(Rest)].then = "handler"
         /\ Top.then = "close" => Rest = <<>>
<1>0. /\ TypeOK /\ calls \in Seq(Frames) /\ Nested(calls)
      /\ metrics \in Buffers /\ delivered \in Seq(Ids) /\ next \in Ids
  BY DEF PipeInv, StackInv, TypeOK
<1>1. calls # <<>> /\ ~IsHandler(Top)
  BY DEF SendtoReturns, InSendto, InHandler, IsHandler
<1>2. OnTop(Top, Rest, calls)
  BY <1>0, <1>1, Popped
<1>3. /\ Rest \in Seq(Frames) /\ Top \in Frames
      /\ Rest # <<>> => Rest[Len(Rest)].then = "handler"
      /\ Top.then = "close" => Rest = <<>>
  BY <1>0, <1>1, <1>2, NestedPop DEF OnTop
<1>4. Resumable(calls, Len(calls)) /\ Len(calls) \in DOMAIN calls /\ Top = calls[Len(calls)]
  BY <1>1, <1>2 DEF OnTop, Resumable
<1>5. ~returned => Top.buf = metrics
  BY <1>4 DEF PipeInv, SendsWhole
<1>6. /\ metrics.ids \in Seq(Ids) /\ Top.buf.ids \in Seq(Ids)
      /\ Batch(Top.buf, next)
  BY <1>0, <1>3, <1>4 DEF Frames, Buffers, PipeInv, Repeats, Batches
<1>7. ~returned => Ordered(delivered', <<>>, next)
  BY <1>0, <1>5, <1>6, OrderedSent DEF PipeInv, SendtoReturns
<1>8. \A i \in DOMAIN delivered' : delivered'[i] < next
  <2>1. CASE delivered' = delivered
    BY <2>1 DEF PipeInv
  <2>2. CASE delivered' = delivered \o Top.buf.ids
    <3>1. /\ Len(delivered) \in Nat /\ Len(Top.buf.ids) \in Nat
          /\ DOMAIN delivered = 1..Len(delivered)
          /\ DOMAIN Top.buf.ids = 1..Len(Top.buf.ids)
      BY <1>0, <1>6, LenProperties
    <3>2. /\ DOMAIN delivered' = 1..(Len(delivered) + Len(Top.buf.ids))
          /\ \A i \in 1..Len(delivered) : delivered'[i] = delivered[i]
          /\ \A i \in 1..Len(Top.buf.ids) : delivered'[Len(delivered) + i] = Top.buf.ids[i]
      BY <1>0, <1>6, <2>2, <3>1, ConcatProperties, LenProperties
    <3>3. ASSUME NEW i \in DOMAIN delivered', i \notin 1..Len(delivered)
          PROVE  delivered'[i] < next
      <4>1. i - Len(delivered) \in 1..Len(Top.buf.ids)
            /\ Len(delivered) + (i - Len(delivered)) = i
        BY <3>1, <3>2, <3>3
      <4>2. delivered'[i] = Top.buf.ids[i - Len(delivered)]
        BY <3>2, <4>1
      <4>3. QED
        BY <1>6, <3>1, <4>1, <4>2 DEF Batch
    <3>4. QED
      BY <3>1, <3>2, <3>3 DEF PipeInv
  <2>3. QED
    BY <2>1, <2>2 DEF SendtoReturns
<1>9. tried' = tried \cup Range(Top.buf.ids)
  BY DEF SendtoReturns
<1>10. Stores \subseteq tried' \cup stranded
  BY <1>4, <1>9 DEF PipeInv, Kept, Covers
<1>11. destroyed' \subseteq Stores
  <2>1. metrics.pool \in Nat /\ metrics.pool < next /\ next \in Nat
    BY <1>0 DEF Buffers, Ids, PipeInv, PoolLives
  <2>2. metrics.pool = 0 \/ metrics.pool \in Stores
    BY <2>1 DEF Stores
  <2>3. QED
    BY <2>2 DEF ClearPool, PipeInv, PoolLives
<1>12. \A more : Repeats(Rest, more, tried', destroyed', next)
  BY <1>1, <1>2, <1>9, BelowIsTried DEF PipeInv
<1>13. delivered' \in Seq(Ids)
  BY <1>0, SendtoType
<1>14. QED
  BY <1>3, <1>5, <1>6, <1>7, <1>8, <1>10, <1>11, <1>12, <1>13

LEMMA NothingWaits ==
  /\ NoMetrics \in Buffers /\ NoMetrics.ids = <<>> /\ NoMetrics.pool = 0
  /\ Range(<<>>) = {}
<1>1. NoMetrics \in Buffers
  BY EmptySeq DEF NoMetrics, Buffers
<1>2. QED
  BY <1>1, RangeOfNone DEF NoMetrics

LEMMA PipeStep ==
  ASSUME Udp, PipeInv, [Next]_vars
  PROVE  PipeInv'
<1>0. /\ StackInv' /\ StackInv /\ TypeOK' /\ TypeOK /\ calls \in Seq(Frames)
      /\ Nested(calls) /\ metrics \in Buffers /\ next \in Ids /\ delivered \in Seq(Ids)
      /\ ~statsd.use_tcp
  BY StackStep DEF StackInv, TypeOK, PipeInv
<1>1. ASSUME NEW use_tcp \in Transports, Open(use_tcp) PROVE PipeInv'
  BY <1>0, <1>1 DEF Udp, Open, PipeInv, Kept, Stores, PoolLives
<1>2. CASE SetFd
  <2>1. ~statsd'.use_tcp
    BY <1>0, <1>2 DEF SetFd, TypeOK
  <2>2. QED
    BY <1>0, <1>2, <2>1 DEF SetFd, PipeInv, Kept, Stores, PoolLives
<1>3. ASSUME NEW n \in Lens, NEW now \in BOOLEAN, Write(n, now) PROVE PipeInv'
  <2>1. /\ Caller \in Seq(Frames)
        /\ Caller # <<>> => Caller[Len(Caller)].then = "handler"
        /\ Repeats(Caller, metrics, tried, destroyed, next)
    BY <1>0, <1>3, CallerType, NestedCaller, RepeatsCaller DEF Write, PipeInv
  <2>2. Formatted(n) \in Sizes
    BY FormattedFits
  <2>3. CASE WouldOverflow(metrics, Formatted(n))
    <3> DEFINE frame == MakingRoom(metrics, Formatted(n), now)
    <3>1. frame \in Frames /\ frame.buf = metrics
      BY <1>0, <2>2, FrameTypes DEF MakingRoom
    <3>2. /\ calls' = Append(Caller, frame)
          /\ UNCHANGED <<statsd, metrics, next, delivered, tried, destroyed,
                         returned, stranded>>
      BY <1>0, <1>3, <2>3 DEF Write
    <3> HIDE DEF frame
    <3>3. OnTop(frame, Caller, calls')
      BY <2>1, <3>1, <3>2, Pushed
    <3>4. SendsWhole(calls', metrics)
      BY <2>1, <3>1, <3>3, WholePushed
    <3>5. Covers(calls', Range(metrics.ids), stranded)
      BY <3>4, WholeCovers
    <3>6. Repeats(calls', metrics, tried, destroyed, next)
      BY <2>1, <3>1, <3>3, RepeatsPushed DEF PipeInv, PoolLives
    <3>7. QED
      BY <1>0, <3>2, <3>4, <3>5, <3>6 DEF PipeInv, Kept, Stores, PoolLives
  <2>4. CASE ~WouldOverflow(metrics, Formatted(n))
    <3>1. /\ Store(Caller, metrics, Formatted(n), now)
          /\ UNCHANGED <<statsd, delivered, tried, destroyed, returned, stranded>>
      BY <1>3, <2>4 DEF Write
    <3>2. /\ SendsWhole(calls', metrics')
          /\ Covers(calls', Range(metrics'.ids), stranded)
          /\ metrics'.ids = Append(metrics.ids, next) /\ next' = next + 1
          /\ Repeats(calls', metrics', tried, destroyed, next')
          /\ Waiting(metrics', next', tried, destroyed, stranded)
      <4>1. Waiting(metrics, next, tried, destroyed, stranded)
        BY DEF PipeInv, Kept, PoolLives, Waiting, Stores
      <4>2. QED
        BY <1>0, <2>1, <2>2, <3>1, <4>1, StoreKeeps
    <3>3. \A i \in DOMAIN delivered : delivered[i] < next'
      <4>1. \A i \in DOMAIN delivered : delivered[i] \in Nat
        BY <1>0, ElementOfSeq, LenProperties DEF Ids
      <4>2. QED
        BY <1>0, <3>1, <4>1 DEF PipeInv, Store, Ids
    <3>4. ~returned => Ordered(delivered, metrics'.ids, next')
      <4>1. metrics.ids \in Seq(Ids)
        BY <1>0 DEF Buffers
      <4>2. QED
        BY <1>0, <3>2, <4>1, OrderedStored DEF PipeInv
    <3>5. QED
      BY <1>0, <3>1, <3>2, <3>3, <3>4 DEF PipeInv, Kept, PoolLives, Waiting, Stores
  <2>5. QED
    BY <2>3, <2>4
<1>4. ASSUME NEW then \in {"done", "close", "exit"}, SendAll(then) PROVE PipeInv'
  <2> DEFINE frame == Sending(metrics, then)
  <2>1. frame \in Frames /\ frame.buf = metrics
    BY <1>0, FrameTypes DEF Sending
  <2>2. /\ calls' = Append(calls, frame)
        /\ calls # <<>> => calls[Len(calls)].then = "handler"
        /\ UNCHANGED <<statsd, metrics, next, delivered, tried, destroyed,
                       returned, stranded>>
    BY <1>4 DEF SendAll, Top
  <2> HIDE DEF frame
  <2>3. OnTop(frame, calls, calls')
    BY <1>0, <2>1, <2>2, Pushed
  <2>4. SendsWhole(calls', metrics)
    BY <2>1, <2>2, <2>3, WholePushed
  <2>5. Covers(calls', Range(metrics.ids), stranded)
    BY <2>4, WholeCovers
  <2>6. Repeats(calls', metrics, tried, destroyed, next)
    BY <2>1, <2>3, RepeatsPushed DEF PipeInv, PoolLives
  <2>7. QED
    BY <1>0, <2>2, <2>4, <2>5, <2>6 DEF PipeInv, Kept, Stores, PoolLives
<1>5. ASSUME NEW ok \in BOOLEAN, Return(ok) \/ ReturnToClose(ok) PROVE PipeInv'
  <2>1. /\ SendtoReturns(ok) /\ ClearPool /\ metrics' = NoMetrics /\ calls' = Rest
        /\ next' = next /\ ~statsd'.use_tcp /\ UNCHANGED <<returned, stranded>>
    BY <1>0, <1>5 DEF Return, ReturnToClose, NULL
  <2>2. SendsWhole(calls', metrics') /\ Covers(calls', Range(metrics'.ids), stranded)
    BY <2>1, SendtoKeeps, NoneResumable, WholeCovers
  <2>3. ~returned => Ordered(delivered', metrics'.ids, next')
    BY <2>1, SendtoKeeps, NothingWaits
  <2>4. Stores' \subseteq tried' \cup stranded /\ destroyed' \subseteq Stores'
    BY <2>1, SendtoKeeps DEF Stores
  <2>5. PoolLives'
    BY <1>0, <2>1, <2>4, NothingWaits DEF PoolLives, TypeOK, Ids
  <2>6. /\ Repeats(calls', metrics', tried', destroyed', next')
        /\ \A i \in DOMAIN delivered' : delivered'[i] < next'
    BY <2>1, SendtoKeeps
  <2>7. Batch(metrics', next')
    BY <2>1, NothingWaits DEF Batch, Pipe!Increasing
  <2>8. QED
    BY <1>0, <2>1, <2>2, <2>3, <2>4, <2>5, <2>6, <2>7 DEF PipeInv, Kept
<1>6. ASSUME NEW ok \in BOOLEAN, ReturnToStore(ok) PROVE PipeInv'
  <2>1. /\ SendtoReturns(ok) /\ ClearPool /\ UNCHANGED <<statsd, returned, stranded>>
        /\ Store(Rest, NoMetrics, Top.size, Top.now)
    BY <1>6 DEF ReturnToStore
  <2>2. /\ delivered' \in Seq(Ids)
        /\ ~returned => Ordered(delivered', NoMetrics.ids, next)
        /\ \A i \in DOMAIN delivered' : delivered'[i] < next
        /\ Stores \subseteq tried' \cup stranded /\ destroyed' \subseteq Stores
        /\ Repeats(Rest, NoMetrics, tried', destroyed', next)
        /\ Rest \in Seq(Frames) /\ Top \in Frames
        /\ Rest # <<>> => Rest[Len(Rest)].then = "handler"
    BY <2>1, SendtoKeeps, NothingWaits
  <2>3. Top.size \in Sizes /\ Top.now \in BOOLEAN
    BY <2>2 DEF Frames
  <2>4. /\ NoMetrics.pool < next /\ NoMetrics.pool \notin destroyed'
        /\ Batch(NoMetrics, next) /\ NoMetrics \in Buffers
        /\ Stores \subseteq tried' \cup Range(NoMetrics.ids) \cup stranded
    BY <1>0, <2>2, NothingWaits DEF TypeOK, Ids, Batch, Pipe!Increasing
  <2>5. /\ SendsWhole(calls', metrics')
        /\ Covers(calls', Range(metrics'.ids), stranded)
        /\ metrics'.ids = Append(NoMetrics.ids, next) /\ next' = next + 1
        /\ Repeats(calls', metrics', tried', destroyed', next')
        /\ Waiting(metrics', next', tried', destroyed', stranded)
    <3>1. Waiting(NoMetrics, next, tried', destroyed', stranded)
      BY <2>2, <2>4 DEF Waiting, Stores
    <3>2. QED
      BY <1>0, <2>1, <2>2, <2>3, <2>4, <3>1, StoreKeeps
  <2>6. \A i \in DOMAIN delivered' : delivered'[i] < next'
    <3>1. \A i \in DOMAIN delivered' : delivered'[i] \in Nat
      BY <2>2, ElementOfSeq, LenProperties DEF Ids
    <3>2. QED
      BY <1>0, <2>1, <2>2, <3>1 DEF Store, Ids
  <2>7. ~returned => Ordered(delivered', metrics'.ids, next')
    BY <1>0, <2>2, <2>4, <2>5, OrderedStored DEF Buffers
  <2>8. QED
    BY <1>0, <2>1, <2>5, <2>6, <2>7 DEF PipeInv, Kept, PoolLives, Waiting, Stores
<1>7. CASE Interrupt
  <2>1. /\ calls' = Append(calls, Signal) /\ Signal \in Frames /\ Signal.then = "signal"
        /\ Signal.buf.ids = <<>> /\ IsHandler(Signal)
        /\ UNCHANGED <<statsd, metrics, next, delivered, tried, destroyed,
                       returned, stranded>>
    BY <1>0, <1>7, FrameTypes DEF Interrupt, Signal, NoMetrics, IsHandler
  <2>2. OnTop(Signal, calls, calls')
    BY <1>0, <2>1, Pushed
  <2>3. ~returned => SendsWhole(calls', metrics)
    BY <2>1, <2>2, WholeInterrupted DEF PipeInv
  <2>4. Covers(calls', Range(metrics.ids), stranded)
    BY <2>1, <2>2, CoversInterrupted DEF PipeInv
  <2>5. Batch(Signal.buf, next)
    BY <2>1 DEF Batch, Pipe!Increasing
  <2>6. Repeats(calls', metrics, tried, destroyed, next)
    BY <2>1, <2>2, <2>5, RepeatsPushed DEF PipeInv
  <2>7. QED
    BY <1>0, <2>1, <2>3, <2>4, <2>6 DEF PipeInv, Kept, Stores, PoolLives
<1>8. CASE HandlerReturns
  <2>1. /\ calls # <<>> /\ calls' = Rest /\ IsHandler(Top)
        /\ UNCHANGED <<statsd, metrics, next, delivered, tried, destroyed>>
        /\ stranded \subseteq stranded'
    BY <1>8 DEF HandlerReturns, InHandler, IsHandler
  <2>2. OnTop(Top, Rest, calls)
    BY <1>0, <2>1, Popped
  <2>3. Repeats(calls', metrics, tried, destroyed, next)
    BY <2>1, <2>2, RepeatsPopped DEF PipeInv
  <2>4. /\ ~returned' => SendsWhole(calls', metrics) /\ ~returned
        /\ Covers(calls', Range(metrics.ids), stranded')
    <3>1. CASE Top.then = "signal"
      <4>1. UNCHANGED <<returned, stranded>>
        BY <1>8, <3>1 DEF HandlerReturns
      <4>2. QED
        BY <2>1, <2>2, <3>1, <4>1, WholeInterrupted, CoversInterrupted DEF PipeInv
    <3>2. CASE Top.then = "handler"
      <4>1. Rest # <<>> /\ ~IsHandler(Rest[Len(Rest)])
        BY <1>0, <2>1, <2>2, NestedPop
      <4>2. /\ Len(Rest) \in Nat /\ DOMAIN Rest = 1..Len(Rest)
            /\ Len(calls) - 1 = Len(Rest) /\ Len(Rest) \in DOMAIN Rest
            /\ calls[Len(Rest)] = Rest[Len(Rest)]
        BY <2>2, <4>1 DEF OnTop
      <4>3. /\ returned' = TRUE
            /\ stranded' = stranded \cup (Range(metrics.ids) \ Range(Rest[Len(Rest)].buf.ids))
        BY <1>8, <3>2, <4>2 DEF HandlerReturns
      <4>4. QED
        BY <2>1, <4>1, <4>2, <4>3, CoversReturned
    <3>3. QED
      BY <2>1, <3>1, <3>2 DEF IsHandler
  <2>5. QED
    BY <1>0, <2>1, <2>3, <2>4 DEF PipeInv, Kept, Stores, PoolLives
<1>9. CASE UNCHANGED vars
  BY <1>0, <1>9 DEF vars, PipeInv, Kept, Stores, PoolLives
<1>10. QED
  BY <1>1, <1>2, <1>3, <1>4, <1>5, <1>6, <1>7, <1>8, <1>9 DEF Next, Api, SendEnds

LEMMA PipeInit == Init => PipeInv
<1> SUFFICES ASSUME Init PROVE PipeInv
  OBVIOUS
<1>1. /\ calls = <<>> /\ metrics = NoMetrics /\ delivered = <<>> /\ next = 1
      /\ destroyed = {} /\ ~statsd.use_tcp
  BY DEF Init, NULL
<1>2. StackInv
  BY InitType DEF Init, StackInv, Nested, Closed
<1>3. /\ SendsWhole(calls, metrics) /\ Covers(calls, Range(metrics.ids), stranded)
      /\ Repeats(calls, metrics, tried, destroyed, next)
  BY <1>1 DEF SendsWhole, Covers, Repeats, Nests, Within, Stale, Batches
<1>4. Ordered(delivered, metrics.ids, next) /\ Batch(metrics, next)
  BY <1>1, NothingWaits DEF Ordered, Batch, Pipe!Increasing
<1>5. Stores = {} /\ \A i \in DOMAIN delivered : delivered[i] < next
  BY <1>1 DEF Stores
<1>6. QED
  BY <1>1, <1>2, <1>3, <1>4, <1>5, NothingWaits DEF PipeInv, Kept, PoolLives

LEMMA PipeInvariant ==
  ASSUME Udp
  PROVE  Spec => []PipeInv
<1>1. PipeInv /\ [Next]_vars => PipeInv'
  BY PipeStep
<1>2. QED
  BY <1>1, PipeInit, PTL DEF Spec
-----------------------------------------------------------------------------
(* Over UDP, no metric is left behind by a client that was closed: each    *)
(* that was stored went into a sendto(), whatever was interrupted, but for *)
(* those that a handler left in the buffer of a send it returned to.       *)
THEOREM UdpDrainedOnClose ==
  ASSUME Udp
  PROVE  Spec => []DrainedOnClose
<1>1. PipeInv => DrainedOnClose
  BY NothingWaits DEF PipeInv, StackInv, Closed, Kept, DrainedOnClose
<1>2. QED
  BY <1>1, PipeInvariant, PTL

(* Over UDP, a sendto() reads from a pool that was destroyed only after a  *)
(* handler has returned, and only what was in an earlier sendto().         *)
THEOREM UdpSendReadsLiveMemory ==
  ASSUME Udp
  PROVE  Spec => []SendReadsLiveMemory
<1>1. ASSUME PipeInv, InSendto, TextPool(Top.buf) \in destroyed
      PROVE  returned /\ Range(Top.buf.ids) \subseteq tried
  <2>1. calls \in Seq(Frames) /\ calls # <<>> /\ ~IsHandler(Top) /\ returned \in BOOLEAN
    BY <1>1 DEF InSendto, InHandler, IsHandler, PipeInv, StackInv, TypeOK
  <2>2. OnTop(Top, Rest, calls)
    BY <2>1, Popped
  <2>3. Resumable(calls, Len(calls)) /\ Len(calls) \in DOMAIN calls /\ Top = calls[Len(calls)]
    BY <2>1, <2>2 DEF OnTop, Resumable
  <2>4. Top.buf.pool \in destroyed
    BY <1>1 DEF TextPool, PipeInv
  <2>5. Range(Top.buf.ids) \subseteq tried
    BY <1>1, <2>3, <2>4 DEF PipeInv, Repeats, Stale
  <2>6. ~returned => Top.buf = metrics
    BY <1>1, <2>3 DEF PipeInv, SendsWhole
  <2>7. metrics.pool \notin destroyed
    BY <1>1 DEF PipeInv, PoolLives
  <2>8. QED
    BY <2>4, <2>5, <2>6, <2>7
<1>2. PipeInv => SendReadsLiveMemory
  BY <1>1 DEF SendReadsLiveMemory
<1>3. QED
  BY <1>2, PipeInvariant, PTL

(* Every step of the client is one of the pipe, or leaves it as it is.     *)
LEMMA Sent ==
  ASSUME PipeInv, NEW ok \in BOOLEAN, SendtoReturns(ok), ClearPool
  PROVE  /\ Len(delivered') >= Len(delivered)
         /\ \A i \in DOMAIN delivered : delivered'[i] = delivered[i]
         /\ \A i, j \in DOMAIN delivered' :
              Len(delivered) < i /\ i < j => delivered'[i] < delivered'[j]
<1> DEFINE batch == Top.buf.ids
           m == Len(delivered)
<1>1. /\ delivered \in Seq(Ids) /\ batch \in Seq(Ids) /\ Batch(Top.buf, next)
      /\ m \in Nat /\ Len(batch) \in Nat
      /\ DOMAIN delivered = 1..m /\ DOMAIN batch = 1..Len(batch)
  BY SendtoKeeps, LenProperties DEF PipeInv, StackInv, TypeOK
<1>2. Pipe!Increasing(batch)
  BY <1>1 DEF Batch
<1>3. /\ Len(delivered \o batch) = m + Len(batch)
      /\ DOMAIN (delivered \o batch) = 1..(m + Len(batch))
      /\ \A i \in 1..m : (delivered \o batch)[i] = delivered[i]
      /\ \A i \in 1..Len(batch) : (delivered \o batch)[m + i] = batch[i]
  BY <1>1, ConcatProperties, LenProperties
<1>4. delivered' = delivered \/ delivered' = delivered \o batch
  BY DEF SendtoReturns
<1> HIDE DEF batch, m
<1>5. CASE delivered' = delivered
  BY <1>1, <1>5 DEF m
<1>6. CASE delivered' = delivered \o batch
  <2>1. ASSUME NEW i \in DOMAIN delivered', NEW j \in DOMAIN delivered', m < i, i < j
        PROVE  delivered'[i] < delivered'[j]
    <3>1. /\ i - m \in 1..Len(batch) /\ j - m \in 1..Len(batch) /\ i - m < j - m
          /\ m + (i - m) = i /\ m + (j - m) = j
      BY <1>1, <1>3, <1>6, <2>1
    <3>2. delivered'[i] = batch[i - m] /\ delivered'[j] = batch[j - m]
      BY <1>3, <1>6, <3>1
    <3>3. QED
      BY <1>1, <1>2, <3>1, <3>2 DEF Pipe!Increasing
  <2>2. QED
    BY <1>1, <1>3, <1>6, <2>1 DEF m
<1>7. QED
  BY <1>4, <1>5, <1>6

LEMMA PipeRefined ==
  ASSUME PipeInv, [Next]_vars
  PROVE  [Pipe!Next]_(Pipe!vars)
<1>1. /\ next \in Nat /\ next > 0 /\ delivered \in Seq(Ids) /\ returned \in BOOLEAN
      /\ Len(delivered) \in Nat /\ DOMAIN delivered = 1..Len(delivered)
  BY LenProperties DEF PipeInv, StackInv, TypeOK, Ids
<1>2. (next' = next \/ next' = next + 1) /\ (returned' = returned \/ returned' = TRUE)
  BY DEF Next, vars, Api, SendEnds, Open, SetFd, Write, Store, SendAll, Return,
         ReturnToStore, ReturnToClose, Interrupt, HandlerReturns
<1>3. /\ delivered' \in Seq(Ids)
      /\ Len(delivered') >= Len(delivered)
      /\ \A i \in DOMAIN delivered : delivered'[i] = delivered[i]
      /\ \A i \in DOMAIN delivered' : delivered'[i] < next
      /\ \A i, j \in DOMAIN delivered' :
           Len(delivered) < i /\ i < j => delivered'[i] < delivered'[j]
      /\ ~returned => Pipe!Increasing(delivered')
  <2>1. CASE delivered' = delivered
    BY <1>1, <2>1 DEF PipeInv, Ordered, Pipe!Increasing
  <2>2. ASSUME NEW ok \in BOOLEAN, SendtoReturns(ok), ClearPool
        PROVE  /\ delivered' \in Seq(Ids)
               /\ Len(delivered') >= Len(delivered)
               /\ \A i \in DOMAIN delivered : delivered'[i] = delivered[i]
               /\ \A i \in DOMAIN delivered' : delivered'[i] < next
               /\ \A i, j \in DOMAIN delivered' :
                    Len(delivered) < i /\ i < j => delivered'[i] < delivered'[j]
               /\ ~returned => Pipe!Increasing(delivered')
    BY <2>2, Sent, SendtoKeeps DEF Ordered
  <2>3. delivered' = delivered \/ \E ok \in BOOLEAN : SendtoReturns(ok) /\ ClearPool
    BY DEF Next, vars, Api, SendEnds, Open, SetFd, Write, SendAll, Return,
           ReturnToStore, ReturnToClose, Interrupt, HandlerReturns
  <2>4. QED
    BY <2>1, <2>2, <2>3
<1>4. \A i \in DOMAIN delivered' : delivered'[i] \in 1..(next - 1)
  <2>1. \A i \in DOMAIN delivered' : delivered'[i] \in Ids
    BY <1>3, ElementOfSeq, LenProperties
  <2>2. QED
    BY <1>1, <1>3, <2>1 DEF Ids
<1>5. Pipe!Accept
  BY <1>1, <1>2 DEF Pipe!Accept
<1>6. Pipe!Deliver
  BY <1>3, <1>4 DEF Pipe!Deliver
<1>7. Pipe!Disorder
  <2>1. CASE returned' = returned
    BY <2>1 DEF Pipe!Disorder
  <2>2. CASE returned' = TRUE
    BY <2>2 DEF Pipe!Disorder
  <2>3. QED
    BY <1>2, <2>1, <2>2
<1>8. QED
  BY <1>5, <1>6, <1>7 DEF Pipe!Next

(* Over UDP the client is a lossy pipe: what it delivers is only ever      *)
(* extended, by batches in order of metrics accepted before; and until a   *)
(* handler has returned into a send it neither repeats nor reorders.       *)
THEOREM UdpIsPipe ==
  ASSUME Udp
  PROVE  Spec => PipeSpec
<1>1. Init => Pipe!Init
  BY DEF Init, Pipe!Init
<1>2. PipeInv /\ [Next]_vars => [Pipe!Next]_(Pipe!vars)
  BY PipeRefined
<1>3. QED
  BY <1>1, <1>2, PipeInvariant, PTL DEF Spec, PipeSpec, Pipe!Spec
=============================================================================
