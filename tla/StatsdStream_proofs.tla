------------------------ MODULE StatsdStream_proofs -------------------------
(***************************************************************************)
(* Proofs about the client of StatsdClient over TCP, and about the stream  *)
(* of StatsdStream that leaves it: for every packet size, every set of     *)
(* metric lengths, whole or short writes, handlers that return into the    *)
(* send they interrupted or end the process, and any bounds.               *)
(***************************************************************************)
EXTENDS StatsdStream, StatsdClient_proofs

Tcp == Transports = {TRUE}

(* A send carries one metric, or none, and a handler none; here and below, *)
(* s is the stack of calls, n the number of the next metric, sent what was *)
(* delivered, and given what was tried.                                    *)
Carries(frame, id) == frame.buf.ids = <<id>>

CarriesNone(frame) == frame.buf.ids = <<>>

OneMetricEach(s, n) ==
  \A i \in DOMAIN s :
    /\ s[i].then # "store"
    /\ IsHandler(s[i]) => CarriesNone(s[i])
    /\ CarriesNone(s[i]) \/ \E id \in 1..(n - 1) : Carries(s[i], id)

(* No metric is carried twice. *)
CarriedOnce(s) == \A i, j \in DOMAIN s, id \in Ids : Carries(s[i], id) /\ Carries(s[j], id) => i = j

(* Nor is it carried still, or again, when it has been delivered.          *)
Undelivered(s, sent, n) ==
  \A k \in DOMAIN sent :
    /\ sent[k] \in 1..(n - 1)
    /\ \A i \in DOMAIN s : ~Carries(s[i], sent[k])

(* A metric is carried until it has been given to a sendto(). *)
TriedOrCarried(s, given, n) ==
  \A id \in 1..(n - 1) : id \in given \/ \E i \in DOMAIN s : Carries(s[i], id)

Distinct(sent) == \A k, l \in DOMAIN sent : sent[k] = sent[l] => k = l

Carrying(s, sent, given, n) ==
  /\ OneMetricEach(s, n)
  /\ CarriedOnce(s)
  /\ Undelivered(s, sent, n)
  /\ TriedOrCarried(s, given, n)
  /\ Distinct(sent)

(* The buffer is empty but while its metric is being sent. *)
BufferIsSent == metrics.ids # <<>> => calls # <<>> /\ Top.then # "handler"

TcpInv ==
  /\ StackInv
  /\ IsOpen => statsd.use_tcp
  /\ Carrying(calls, delivered, tried, next)
  /\ BufferIsSent
-----------------------------------------------------------------------------
LEMMA CarriesIsOne ==
  /\ \A a, b : <<a>> = <<b>> => a = b
  /\ \A a : <<a>> # <<>>
<1>1. ASSUME NEW a, NEW b, <<a>> = <<b>> PROVE a = b
  <2>1. <<a>>[1] = a /\ <<b>>[1] = b
    OBVIOUS
  <2>2. QED
    BY <1>1, <2>1
<1>2. QED
  BY <1>1

(* A stack that carries the same. *)
LEMMA CarryingSame ==
  ASSUME NEW s, NEW t, NEW sent, NEW given, NEW n, Carrying(s, sent, given, n),
         DOMAIN t = DOMAIN s,
         \A i \in DOMAIN s : /\ t[i].buf = s[i].buf /\ t[i].then # "store"
                             /\ IsHandler(t[i]) => IsHandler(s[i])
  PROVE  Carrying(t, sent, given, n)
<1>1. \A i \in DOMAIN s : /\ CarriesNone(t[i]) <=> CarriesNone(s[i])
                          /\ \A id : Carries(t[i], id) <=> Carries(s[i], id)
  BY DEF Carries, CarriesNone
<1>2. QED
  BY <1>1
  DEF Carrying, OneMetricEach, CarriedOnce, Undelivered, TriedOrCarried

LEMMA CarryingPushed ==
  ASSUME NEW rest, NEW s, NEW frame, OnTop(frame, rest, s), frame.then # "store",
         NEW sent, NEW given, NEW n \in Ids, Carrying(rest, sent, given, n)
  PROVE  /\ CarriesNone(frame) => Carrying(s, sent, given, n)
         /\ Carries(frame, n) /\ ~IsHandler(frame) => Carrying(s, sent, given, n + 1)
<1> DEFINE m == Len(rest)
<1>1. /\ m \in Nat /\ DOMAIN rest = 1..m /\ DOMAIN s = 1..(m + 1)
      /\ \A i \in 1..m : s[i] = rest[i]
      /\ s[m + 1] = frame
  BY DEF OnTop
<1> HIDE DEF m
<1>2. /\ \A i \in DOMAIN s : i \in DOMAIN rest \/ i = m + 1
      /\ m + 1 \in DOMAIN s /\ DOMAIN rest \subseteq DOMAIN s
      /\ \A i \in DOMAIN rest : s[i] = rest[i]
  BY <1>1
<1>3. ASSUME CarriesNone(frame) PROVE Carrying(s, sent, given, n)
  <2>1. \A id : ~Carries(frame, id)
    BY <1>3, CarriesIsOne DEF Carries, CarriesNone
  <2>2. OneMetricEach(s, n)
    BY <1>1, <1>2, <1>3 DEF Carrying, OneMetricEach
  <2>3. CarriedOnce(s)
    BY <1>1, <1>2, <2>1 DEF Carrying, CarriedOnce
  <2>4. Undelivered(s, sent, n)
    BY <1>1, <1>2, <2>1 DEF Carrying, Undelivered
  <2>5. TriedOrCarried(s, given, n)
    BY <1>2 DEF Carrying, TriedOrCarried
  <2>6. QED
    BY <2>2, <2>3, <2>4, <2>5 DEF Carrying
<1>4. ASSUME Carries(frame, n), ~IsHandler(frame) PROVE Carrying(s, sent, given, n + 1)
  <2>1. /\ n \in Nat /\ n > 0 /\ n \notin 1..(n - 1) /\ (n + 1) - 1 = n
        /\ \A id \in 1..n : id = n \/ id \in 1..(n - 1)
        /\ 1..(n - 1) \subseteq 1..n /\ n \in 1..n
    BY DEF Ids
  <2>2. \A id : Carries(frame, id) <=> id = n
    BY <1>4, CarriesIsOne DEF Carries
  <2>3. OneMetricEach(s, n + 1)
    BY <1>1, <1>2, <1>4, <2>1 DEF Carrying, OneMetricEach
  <2>4. \A i \in DOMAIN rest : ~Carries(rest[i], n)
    BY <2>1, CarriesIsOne DEF Carrying, OneMetricEach, Carries, CarriesNone
  <2>5. CarriedOnce(s)
    BY <1>1, <1>2, <2>2, <2>4 DEF Carrying, CarriedOnce
  <2>6. Undelivered(s, sent, n + 1)
    BY <1>1, <1>2, <2>1, <2>2 DEF Carrying, Undelivered
  <2>7. TriedOrCarried(s, given, n + 1)
    BY <1>1, <1>2, <1>4, <2>1 DEF Carrying, TriedOrCarried
  <2>8. QED
    BY <2>3, <2>5, <2>6, <2>7 DEF Carrying
<1>5. QED
  BY <1>3, <1>4

(* A send returns, having delivered what it carried or not. *)
LEMMA CarryingPopped ==
  ASSUME NEW rest, NEW s, NEW frame, OnTop(frame, rest, s),
         NEW sent \in Seq(Ids), NEW given, NEW n \in Ids, Carrying(s, sent, given, n)
  PROVE  /\ CarriesNone(frame) => Carrying(rest, sent, given, n)
         /\ \A id \in Ids, more \in SUBSET Ids :
              Carries(frame, id) /\ id \in more
              => /\ Carrying(rest, sent, given \cup more, n)
                 /\ Carrying(rest, Append(sent, id), given \cup more, n)
<1> DEFINE m == Len(rest)
<1>1. /\ m \in Nat /\ DOMAIN rest = 1..m /\ DOMAIN s = 1..(m + 1)
      /\ \A i \in 1..m : s[i] = rest[i]
      /\ s[m + 1] = frame
  BY DEF OnTop
<1> HIDE DEF m
<1>2. /\ \A i \in DOMAIN s : i \in DOMAIN rest \/ i = m + 1
      /\ m + 1 \in DOMAIN s /\ DOMAIN rest \subseteq DOMAIN s
      /\ m + 1 \notin DOMAIN rest
      /\ \A i \in DOMAIN rest : s[i] = rest[i]
  BY <1>1
<1>3. OneMetricEach(rest, n) /\ CarriedOnce(rest) /\ Undelivered(rest, sent, n)
      /\ Distinct(sent)
  BY <1>2 DEF Carrying, OneMetricEach, CarriedOnce, Undelivered
<1>4. ASSUME CarriesNone(frame) PROVE TriedOrCarried(rest, given, n)
  <2>1. \A id : ~Carries(frame, id)
    BY <1>4, CarriesIsOne DEF Carries, CarriesNone
  <2>2. QED
    BY <1>1, <1>2, <2>1 DEF Carrying, TriedOrCarried
<1>5. ASSUME NEW id \in Ids, NEW more \in SUBSET Ids, Carries(frame, id), id \in more
      PROVE  /\ Carrying(rest, sent, given \cup more, n)
             /\ Carrying(rest, Append(sent, id), given \cup more, n)
  <2>1. \A x : Carries(frame, x) <=> x = id
    BY <1>5, CarriesIsOne DEF Carries
  <2>2. TriedOrCarried(rest, given \cup more, n)
    BY <1>1, <1>2, <1>5, <2>1 DEF Carrying, TriedOrCarried
  <2>3. \A i \in DOMAIN rest : ~Carries(rest[i], id)
    BY <1>1, <1>2, <1>5 DEF Carrying, CarriedOnce
  <2>4. id \in 1..(n - 1)
    BY <1>1, <1>2, <1>5, <2>1, CarriesIsOne
    DEF Carrying, OneMetricEach, CarriesNone, Carries
  <2>5. \A k \in DOMAIN sent : sent[k] # id
    BY <1>1, <1>2, <1>5 DEF Carrying, Undelivered
  <2> DEFINE t == Append(sent, id)
  <2>6. /\ Len(sent) \in Nat /\ DOMAIN sent = 1..Len(sent)
        /\ DOMAIN t = 1..(Len(sent) + 1)
    BY <1>5, AppendProperties, LenProperties
  <2>7. (\A k \in 1..Len(sent) : t[k] = sent[k]) /\ t[Len(sent) + 1] = id
    BY <1>5, AppendProperties
  <2> HIDE DEF t
  <2>8. Distinct(t)
    BY <1>3, <2>5, <2>6, <2>7 DEF Distinct
  <2>9. Undelivered(rest, t, n)
    BY <1>3, <2>3, <2>4, <2>6, <2>7 DEF Undelivered
  <2>10. QED
    BY <1>3, <2>2, <2>8, <2>9 DEF Carrying, t
<1>6. QED
  BY <1>3, <1>4, <1>5 DEF Carrying
-----------------------------------------------------------------------------
(* The send that returns: the rest of the stack, what it carries, and what *)
(* it has tried and delivered of its own.                                  *)
LEMMA TcpSendto ==
  ASSUME TcpInv, NEW ok \in BOOLEAN, SendtoReturns(ok)
  PROVE  /\ Carrying(Rest, delivered', tried', next)
         /\ Rest # <<>> => Rest[Len(Rest)].then = "handler"
         /\ Top.then # "store"
         /\ \/ delivered' = delivered
            \/ \E id \in Ids : Carries(Top, id) /\ delivered' = Append(delivered, id)
<1>1. /\ calls \in Seq(Frames) /\ Nested(calls) /\ delivered \in Seq(Ids) /\ next \in Ids
      /\ Carrying(calls, delivered, tried, next)
  BY DEF TcpInv, StackInv, TypeOK
<1>2. calls # <<>> /\ ~IsHandler(Top)
  BY DEF SendtoReturns, InSendto, InHandler, IsHandler
<1>3. OnTop(Top, Rest, calls)
  BY <1>1, <1>2, Popped
<1>4. Rest # <<>> => Rest[Len(Rest)].then = "handler"
  BY <1>1, <1>2, <1>3, NestedPop
<1>5. /\ Top.then # "store"
      /\ CarriesNone(Top) \/ \E id \in Ids : Carries(Top, id)
  <2>1. Len(calls) \in DOMAIN calls /\ Top = calls[Len(calls)]
    BY <1>3 DEF OnTop
  <2>2. 1..(next - 1) \subseteq Ids
    BY <1>1 DEF Ids
  <2>3. QED
    BY <1>1, <2>1, <2>2 DEF Carrying, OneMetricEach
<1>6. CASE CarriesNone(Top)
  <2>1. delivered' = delivered /\ tried' = tried
    BY <1>6, RangeOfNone DEF SendtoReturns, CarriesNone
  <2>2. QED
    BY <1>1, <1>3, <1>4, <1>5, <1>6, <2>1, CarryingPopped
<1>7. ASSUME NEW id \in Ids, Carries(Top, id)
      PROVE  /\ Carrying(Rest, delivered', tried', next)
             /\ \/ delivered' = delivered
                \/ delivered' = Append(delivered, id)
  <2>1. Top.buf.ids = <<id>> /\ Range(<<id>>) = {id}
    BY <1>7, RangeOfOne DEF Carries
  <2>2. tried' = tried \cup {id}
    BY <2>1 DEF SendtoReturns
  <2>3. delivered \o <<id>> = Append(delivered, id)
    BY <1>1, AppendIsConcat
  <2>4. delivered' = delivered \/ delivered' = Append(delivered, id)
    BY <2>1, <2>3 DEF SendtoReturns
  <2>5. /\ Carrying(Rest, delivered, tried \cup {id}, next)
        /\ Carrying(Rest, Append(delivered, id), tried \cup {id}, next)
    BY <1>1, <1>3, <1>7, CarryingPopped
  <2>6. QED
    BY <2>2, <2>4, <2>5
<1>8. QED
  BY <1>4, <1>5, <1>6, <1>7

LEMMA TcpStep ==
  ASSUME Tcp, TcpInv, [Next]_vars
  PROVE  TcpInv'
<1> USE DEF TcpInv
<1>0. /\ StackInv' /\ TypeOK /\ calls \in Seq(Frames) /\ Nested(calls)
      /\ metrics \in Buffers /\ next \in Ids
  BY StackStep DEF StackInv, TypeOK
<1>1. ASSUME NEW use_tcp \in Transports, Open(use_tcp) PROVE TcpInv'
  BY <1>0, <1>1 DEF Tcp, Open, BufferIsSent, Top
<1>2. CASE SetFd
  <2>1. statsd'.use_tcp = statsd.use_tcp /\ IsOpen
    BY <1>0, <1>2 DEF SetFd, TypeOK
  <2>2. QED
    BY <1>0, <1>2, <2>1 DEF SetFd, BufferIsSent, Top
<1>3. ASSUME NEW n \in Lens, NEW now \in BOOLEAN, Write(n, now) PROVE TcpInv'
  <2> DEFINE stored == Stored(metrics, next, Formatted(n))
             frame == Sending(stored, "done")
  <2>1. /\ Caller \in Seq(Frames) /\ InControl /\ IsOpen /\ statsd.use_tcp
        /\ UNCHANGED <<statsd, delivered, tried>>
    BY <1>0, <1>3, CallerType DEF Write
  <2>2. calls' = Append(Caller, frame) /\ next' = next + 1
    BY <1>3, <2>1 DEF Write, Store
  <2>3. stored \in Buffers /\ stored.ids = <<next>>
    BY <1>0, <2>1, FormattedFits, StoredType DEF Stored
  <2>4. /\ frame \in Frames /\ Carries(frame, next)
        /\ frame.then = "done" /\ ~IsHandler(frame)
    BY <2>3, FrameTypes DEF Sending, Carries, IsHandler
  <2> HIDE DEF stored, frame
  <2>5. OnTop(frame, Caller, calls')
    BY <2>1, <2>2, <2>4, Pushed
  <2>6. Carrying(Caller, delivered, tried, next)
    <3>1. CASE Caller = calls
      BY <3>1
    <3>2. CASE /\ OnTop(Woken, Rest, Caller) /\ OnTop(Top, Rest, calls)
               /\ IsHandler(Top) /\ Woken.then = "handler" /\ Woken.buf = Top.buf
      <4>1. /\ DOMAIN Caller = DOMAIN calls
            /\ \A i \in DOMAIN calls : i = Len(calls) \/ Caller[i] = calls[i]
            /\ Caller[Len(calls)] = Woken /\ calls[Len(calls)] = Top
        BY <3>2 DEF OnTop
      <4>2. \A i \in DOMAIN calls : /\ Caller[i].buf = calls[i].buf
                                    /\ Caller[i].then # "store"
                                    /\ IsHandler(Caller[i]) => IsHandler(calls[i])
        BY <3>2, <4>1 DEF Carrying, OneMetricEach
      <4>3. QED
        BY <4>1, <4>2, CarryingSame
    <3>3. QED
      BY <1>0, <2>1, <3>1, <3>2, Calling
  <2>7. Carrying(calls', delivered, tried, next + 1)
    BY <1>0, <2>4, <2>5, <2>6, CarryingPushed
  <2>8. BufferIsSent'
    BY <2>4, <2>5 DEF BufferIsSent, Top, OnTop
  <2>9. QED
    BY <1>0, <2>1, <2>2, <2>7, <2>8 DEF IsOpen
<1>4. ASSUME NEW then \in {"done", "close", "exit"}, SendAll(then) PROVE TcpInv'
  <2> DEFINE frame == Sending(metrics, then)
  <2>1. calls # <<>> => Top.then = "handler"
    BY <1>4 DEF SendAll
  <2>2. metrics.ids = <<>>
    BY <2>1 DEF BufferIsSent
  <2>3. /\ frame \in Frames /\ frame.then # "store" /\ CarriesNone(frame)
    BY <1>0, <2>2, FrameTypes DEF Sending, CarriesNone
  <2>4. /\ calls' = Append(calls, frame)
        /\ UNCHANGED <<statsd, metrics, delivered, tried, next>>
    BY <1>4 DEF SendAll
  <2> HIDE DEF frame
  <2>5. Carrying(calls', delivered, tried, next)
    BY <1>0, <2>3, <2>4, Pushed, CarryingPushed
  <2>6. QED
    BY <1>0, <2>2, <2>4, <2>5 DEF IsOpen, BufferIsSent
<1>5. ASSUME NEW ok \in BOOLEAN, Return(ok) \/ ReturnToClose(ok) PROVE TcpInv'
  <2>1. /\ SendtoReturns(ok) /\ metrics' = NoMetrics /\ calls' = Rest /\ next' = next
        /\ statsd' = statsd \/ statsd' = NULL
    BY <1>5 DEF Return, ReturnToClose
  <2>2. Carrying(calls', delivered', tried', next')
    BY <2>1, TcpSendto
  <2>3. metrics'.ids = <<>>
    BY <2>1 DEF NoMetrics
  <2>4. QED
    BY <1>0, <2>1, <2>2, <2>3 DEF IsOpen, NULL, BufferIsSent
<1>6. ASSUME NEW ok \in BOOLEAN, ReturnToStore(ok) PROVE TcpInv'
  BY <1>6, TcpSendto DEF ReturnToStore
<1>7. CASE Interrupt
  <2>1. /\ calls' = Append(calls, Signal) /\ Signal \in Frames /\ Signal.then = "signal"
        /\ CarriesNone(Signal)
        /\ UNCHANGED <<statsd, metrics, delivered, tried, next>>
    BY <1>0, <1>7, FrameTypes DEF Interrupt, Signal, CarriesNone, NoMetrics
  <2>2. OnTop(Signal, calls, calls')
    BY <1>0, <2>1, Pushed
  <2>3. Carrying(calls', delivered, tried, next)
    BY <1>0, <2>1, <2>2, CarryingPushed
  <2>4. BufferIsSent'
    BY <2>1, <2>2 DEF BufferIsSent, Top, OnTop
  <2>5. QED
    BY <1>0, <2>1, <2>3, <2>4 DEF IsOpen
<1>8. CASE HandlerReturns
  <2>1. /\ calls # <<>> /\ calls' = Rest /\ IsHandler(Top)
        /\ UNCHANGED <<statsd, metrics, delivered, tried, next>>
    BY <1>8 DEF HandlerReturns, InHandler, IsHandler
  <2>2. OnTop(Top, Rest, calls)
    BY <1>0, <2>1, Popped
  <2>3. Carrying(Rest, delivered, tried, next) /\ Rest # <<>>
        /\ ~IsHandler(Rest[Len(Rest)])
    <3>1. CarriesNone(Top)
      BY <2>1, <2>2 DEF OnTop, Carrying, OneMetricEach
    <3>2. QED
      BY <1>0, <2>1, <2>2, <3>1, CarryingPopped, NestedPop DEF TypeOK
  <2>4. BufferIsSent'
    BY <2>1, <2>2, <2>3 DEF BufferIsSent, Top, IsHandler
  <2>5. QED
    BY <1>0, <2>1, <2>3, <2>4 DEF IsOpen
<1>9. CASE UNCHANGED vars
  BY <1>0, <1>9 DEF vars, IsOpen, BufferIsSent, Top
<1>10. QED
  BY <1>1, <1>2, <1>3, <1>4, <1>5, <1>6, <1>7, <1>8, <1>9 DEF Next, Api, SendEnds

LEMMA TcpInvariant ==
  ASSUME Tcp
  PROVE  Spec => []TcpInv
<1>1. Init => TcpInv
  <2> SUFFICES ASSUME Init PROVE TcpInv
    OBVIOUS
  <2>1. StackInv
    BY InitType DEF Init, StackInv, Nested, Closed
  <2>2. calls = <<>> /\ delivered = <<>> /\ next = 1 /\ ~IsOpen /\ metrics.ids = <<>>
    BY DEF Init, NULL, IsOpen, NoMetrics
  <2>3. Carrying(calls, delivered, tried, next)
    BY <2>2
    DEF Carrying, OneMetricEach, CarriedOnce, Undelivered, TriedOrCarried, Distinct
  <2>4. QED
    BY <2>1, <2>2, <2>3 DEF TcpInv, BufferIsSent
<1>2. TcpInv /\ [Next]_vars => TcpInv'
  BY TcpStep
<1>3. QED
  BY <1>1, <1>2, PTL DEF Spec

(* Over TCP, whatever handlers do inside a send, no metric that was stored *)
(* is dropped before a sendto() had it.                                    *)
THEOREM TcpAccounted ==
  ASSUME Tcp
  PROVE  Spec => []Accounted
<1>1. ASSUME TcpInv PROVE Accounted
  <2>1. ASSUME NEW id \in Stores, NEW i \in DOMAIN calls, Carries(calls[i], id)
        PROVE  id \in InFlight
    <3>1. id \in Range(calls[i].buf.ids)
      BY <2>1, RangeOfOne DEF Carries
    <3>2. QED
      BY <3>1 DEF InFlight
  <2>2. QED
    BY <1>1, <2>1 DEF TcpInv, Carrying, TriedOrCarried, Accounted, Stores
<1>2. QED
  BY <1>1, TcpInvariant, PTL

(* Over TCP, once no call is in progress every metric was in a sendto().   *)
THEOREM TcpSentWhenIdle ==
  ASSUME Tcp
  PROVE  Spec => []TcpSentOnReturn
<1>1. TcpInv => TcpSentOnReturn
  BY DEF TcpInv, Carrying, TriedOrCarried, TcpSentOnReturn, Stores
<1>2. QED
  BY <1>1, TcpInvariant, PTL

(* Over TCP, no metric is delivered twice. *)
THEOREM TcpAtMostOnce ==
  ASSUME Tcp
  PROVE  Spec => []AtMostOnce
<1>1. TcpInv => AtMostOnce
  BY DEF TcpInv, Carrying, Distinct, AtMostOnce
<1>2. QED
  BY <1>1, TcpInvariant, PTL
-----------------------------------------------------------------------------
LEMMA StreamInitType == StreamInit => StreamTypeOK
  BY InitType DEF StreamInit, StreamTypeOK

(* What is received changes only with what is delivered, and what is       *)
(* delivered then is the buffer of the innermost send.                     *)
LEMMA DeliveredIsTop ==
  ASSUME TypeOK, [Next]_vars, delivered' # delivered
  PROVE  /\ \E ok \in BOOLEAN : SendtoReturns(ok)
         /\ Top.buf.ids # <<>> /\ delivered' = delivered \o Top.buf.ids
         /\ Top \in Frames
<1>1. \E ok \in BOOLEAN : SendtoReturns(ok)
  BY DEF Next, vars, Api, SendEnds, Open, SetFd, Write, SendAll, Return,
         ReturnToStore, ReturnToClose, Interrupt, HandlerReturns
<1>2. Top.buf.ids # <<>> /\ delivered' = delivered \o Top.buf.ids
  BY <1>1 DEF SendtoReturns
<1>3. Top \in Frames
  BY <1>1, StackTypes DEF SendtoReturns, InSendto, TypeOK
<1>4. QED
  BY <1>1, <1>2, <1>3

LEMMA StreamStepType == StreamTypeOK /\ [StreamNext]_<<vars, stream_vars>> => StreamTypeOK'
<1> SUFFICES ASSUME StreamTypeOK, [StreamNext]_<<vars, stream_vars>> PROVE StreamTypeOK'
  OBVIOUS
<1>1. [Next]_vars /\ TypeOK /\ TypeOK'
  BY StepType DEF StreamTypeOK, StreamNext, vars
<1>2. CASE UNCHANGED stream_vars
  BY <1>1, <1>2 DEF StreamTypeOK, stream_vars
<1>3. CASE NothingReceived
  BY <1>1, <1>3 DEF StreamTypeOK, NothingReceived
<1>4. ASSUME delivered' # delivered, NEW n \in Taken(Top.buf), Received(Top.buf, n)
      PROVE  StreamTypeOK'
  <2>1. Top.buf.ids \in Seq(Ids) /\ Top.buf.ids # <<>>
    BY <1>1, <1>4, DeliveredIsTop DEF Frames, Buffers
  <2>2. Top.buf.ids[1] \in Ids
    <3>1. Len(Top.buf.ids) \in Nat \ {0}
      BY <2>1, EmptySeq, LenProperties
    <3>2. QED
      BY <2>1, <3>1, ElementOfSeq
  <2>3. QED
    BY <1>1, <1>4, <2>2 DEF StreamTypeOK, Received
<1>5. QED
  BY <1>2, <1>3, <1>4 DEF StreamNext

(* The state of the stream, as that of the client, has its type, whatever  *)
(* the transports.                                                         *)
THEOREM StreamTypeCorrect == StreamSpec => []StreamTypeOK
<1>1. QED
  BY StreamInitType, StreamStepType, PTL DEF StreamSpec

(* A behaviour of the stream is one of the client. *)
LEMMA StreamIsClient == StreamSpec => Spec
<1>1. StreamInit => Init
  BY DEF StreamInit
<1>2. [StreamNext]_<<vars, stream_vars>> => [Next]_vars
  BY DEF StreamNext, vars
<1>3. QED
  BY <1>1, <1>2, PTL DEF StreamSpec, Spec

(* A line that is incomplete is that of the last metric delivered, which   *)
(* was spoiled.                                                            *)
BegunIsSpoiled ==
  begun => delivered # <<>> /\ delivered[Len(delivered)] \in spoiled

StreamInv == StreamTypeOK /\ BegunIsSpoiled /\ OnlyNeighboursLost

(* One metric is delivered: it is read, or it was spoiled, or the one      *)
(* before it was.                                                          *)
LEMMA StreamReceives ==
  ASSUME StreamInv, NEW id \in Ids, NEW buf \in Buffers, buf.ids = <<id>>,
         buf.len >= buf.text, NEW n \in Nat, n <= buf.len, Received(buf, n),
         delivered' = Append(delivered, id)
  PROVE  BegunIsSpoiled' /\ OnlyNeighboursLost'
<1>1. buf.len \in Nat /\ buf.text \in Nat /\ buf.ids[1] = id
  BY DEF Buffers
<1> DEFINE m == Len(delivered)
<1>2. /\ m \in Nat /\ DOMAIN delivered = 1..m /\ delivered' # <<>>
      /\ DOMAIN delivered' = 1..(m + 1) /\ Len(delivered') = m + 1
  BY AppendProperties, LenProperties DEF StreamInv, StreamTypeOK, TypeOK
<1>3. (\A i \in 1..m : delivered'[i] = delivered[i]) /\ delivered'[m + 1] = id
  BY AppendProperties DEF StreamInv, StreamTypeOK, TypeOK
<1>4. m = 0 <=> delivered = <<>>
  BY EmptySeq, LenProperties DEF StreamInv, StreamTypeOK, TypeOK
<1> HIDE DEF m
<1>5. /\ read' = IF n >= buf.text /\ ~begun THEN read \cup {id} ELSE read
      /\ spoiled' = IF n < buf.len \/ buf.len > buf.text THEN spoiled \cup {id} ELSE spoiled
      /\ begun' => n # buf.text
  BY <1>1 DEF Received
<1>6. read \subseteq read' /\ spoiled \subseteq spoiled'
  BY <1>5
<1>7. /\ n < buf.text \/ n > buf.text => n < buf.len \/ buf.len > buf.text
      /\ n >= buf.text \/ n < buf.text
  BY <1>1
<1>8. /\ n # buf.text => id \in spoiled'
      /\ ~begun => id \in read' \cup spoiled'
  BY <1>1, <1>5, <1>7
<1>9. BegunIsSpoiled'
  BY <1>2, <1>3, <1>5, <1>8 DEF BegunIsSpoiled
<1>10. CASE begun
  <2>1. m \in 1..m /\ delivered[m] \in spoiled
    BY <1>2, <1>4, <1>10 DEF StreamInv, BegunIsSpoiled, m
  <2>2. m + 1 > 1 /\ (m + 1) - 1 = m
    BY <1>2, <2>1
  <2>3. QED
    BY <1>2, <1>3, <1>6, <1>9, <2>1, <2>2 DEF StreamInv, OnlyNeighboursLost
<1>11. CASE ~begun
  <2>1. id \in read' \cup spoiled'
    BY <1>8, <1>11
  <2>2. QED
    BY <1>2, <1>3, <1>6, <1>9, <2>1 DEF StreamInv, OnlyNeighboursLost
<1>12. QED
  BY <1>10, <1>11

LEMMA StreamStep ==
  ASSUME StreamInv, TcpInv, BuffersInv, [StreamNext]_<<vars, stream_vars>>
  PROVE  StreamInv'
<1>1. StreamTypeOK' /\ TypeOK /\ [Next]_vars
  BY StreamStepType DEF StreamInv, StreamTypeOK, StreamNext, vars
<1>2. CASE delivered' = delivered
  <2>1. (begun' => begun) /\ UNCHANGED <<read, spoiled>>
    <3>1. CASE UNCHANGED stream_vars
      BY <3>1 DEF stream_vars
    <3>2. CASE NothingReceived
      BY <3>2 DEF NothingReceived
    <3>3. QED
      BY <1>2, <3>1, <3>2 DEF StreamNext
  <2>2. QED
    BY <1>1, <1>2, <2>1 DEF StreamInv, BegunIsSpoiled, OnlyNeighboursLost
<1>3. CASE delivered' # delivered
  <2>1. PICK ok \in BOOLEAN : SendtoReturns(ok)
    BY <1>1, <1>3, DeliveredIsTop
  <2>2. PICK id \in Ids : Carries(Top, id) /\ delivered' = Append(delivered, id)
    BY <1>3, <2>1, TcpSendto
  <2>3. Top.buf \in Buffers /\ Top.buf.len \in Nat
    BY <1>1, <1>3, DeliveredIsTop DEF Frames, Buffers
  <2>4. Top.buf.len >= Top.buf.text
    <3>1. GoodFrame(Top)
      BY <2>1, StackTypes DEF SendtoReturns, InSendto, BuffersInv, TypeOK, Top
    <3>2. QED
      BY <3>1 DEF GoodFrame, GoodBuffer
  <2>5. PICK n \in Taken(Top.buf) : Received(Top.buf, n)
    BY <1>3 DEF StreamNext, vars
  <2>6. n \in Nat /\ n <= Top.buf.len
    BY <2>3, <2>5 DEF Taken
  <2>7. QED
    BY <1>1, <2>2, <2>3, <2>4, <2>5, <2>6, StreamReceives DEF Carries, StreamInv
<1>4. QED
  BY <1>2, <1>3

(* Over TCP, a send that was cut, or had bytes behind its newline, costs   *)
(* the statsd server no metric but its own and the one sent next.          *)
THEOREM TcpOnlyNeighboursLost ==
  ASSUME Tcp
  PROVE  StreamSpec => []OnlyNeighboursLost
<1>1. StreamInit => StreamInv
  BY StreamInitType DEF StreamInit, Init, StreamInv, BegunIsSpoiled, OnlyNeighboursLost
<1>2. StreamInv /\ TcpInv /\ BuffersInv /\ [StreamNext]_<<vars, stream_vars>> => StreamInv'
  BY StreamStep
<1>3. StreamInv => OnlyNeighboursLost
  BY DEF StreamInv
<1>4. StreamSpec => [](TcpInv /\ BuffersInv)
  BY StreamIsClient, TcpInvariant, BuffersInvariant, PTL
<1>5. QED
  BY <1>1, <1>2, <1>3, <1>4, PTL DEF StreamSpec
=============================================================================
