------------------------ MODULE StatsdClient_proofs ------------------------
(***************************************************************************)
(* Proofs about StatsdClient, for every packet size, every set of metric   *)
(* lengths, both transports, and any bounds.                               *)
(***************************************************************************)
EXTENDS StatsdClient, SequenceTheorems, TLAPS

(* What formatting returns is a length and a text no longer than it. *)
LEMMA FormattedFits ==
  ASSUME NEW n \in Lens
  PROVE  /\ Formatted(n) \in Sizes
         /\ Formatted(n).len >= Formatted(n).text
  BY ClientAssumption DEF Formatted, Sizes, Smaller, STATSD_MAX_METRIC_SIZE

(* The frames a call pushes are frames. *)
LEMMA FrameTypes ==
  ASSUME NEW buf \in Buffers
  PROVE  /\ NoMetrics \in Buffers
         /\ Signal \in Frames
         /\ \A then \in {"done", "store", "close", "exit"} : Sending(buf, then) \in Frames
         /\ \A size \in Sizes, now \in BOOLEAN : MakingRoom(buf, size, now) \in Frames
  BY DEF NoMetrics, Buffers, Signal, Frames, Sizes, NoSize, Sending, MakingRoom

(* Looking at, and returning from, the innermost call. *)
LEMMA StackTypes ==
  ASSUME calls \in Seq(Frames), calls # <<>>
  PROVE  /\ Top \in Frames
         /\ Rest \in Seq(Frames)
         /\ DOMAIN Rest \subseteq DOMAIN calls
         /\ \A i \in DOMAIN Rest : Rest[i] = calls[i]
         /\ Len(calls) \in DOMAIN calls
<1>1. Len(calls) \in Nat \ {0}
  BY EmptySeq, LenProperties
<1>2. Rest \in Seq(Frames)
  <2>1. \A i \in 1..(Len(calls) - 1) : calls[i] \in Frames
    BY <1>1, ElementOfSeq
  <2>2. QED
    BY <1>1, <2>1, SubSeqProperties DEF Rest
<1>3. DOMAIN Rest = 1..(Len(calls) - 1)
  BY <1>1, <1>2, LenProperties DEF Rest
<1>4. \A i \in 1..(Len(calls) - 1) : Rest[i] = calls[i]
  BY <1>1 DEF Rest
<1>5. DOMAIN calls = 1..Len(calls)
  BY LenProperties
<1>6. QED
  BY <1>1, <1>2, <1>3, <1>4, <1>5, ElementOfSeq DEF Top

LEMMA CallerType ==
  ASSUME calls \in Seq(Frames)
  PROVE  Caller \in Seq(Frames)
<1>1. CASE InHandler
  <2>1. Top \in Frames /\ Rest \in Seq(Frames)
    BY <1>1, StackTypes DEF InHandler
  <2>2. [Top EXCEPT !.then = "handler"] \in Frames
    BY <2>1 DEF Frames
  <2>3. QED
    BY <1>1, <2>1, <2>2, AppendProperties DEF Caller
<1>2. CASE ~InHandler
  BY <1>2 DEF Caller
<1>3. QED
  BY <1>1, <1>2

LEMMA StoredType ==
  ASSUME NEW buf \in Buffers, NEW id \in Ids, NEW size \in Sizes
  PROVE  Stored(buf, id, size) \in Buffers
<1>1. <<id>> \in Seq(Ids) /\ Append(buf.ids, id) \in Seq(Ids)
  BY AppendProperties DEF Buffers
<1>2. /\ buf.len \in Nat /\ buf.text \in Nat /\ size.len \in Nat /\ size.text \in Nat
      /\ id \in Nat
  BY DEF Buffers, Sizes, Ids
<1>3. CASE statsd.use_tcp
  BY <1>1, <1>2, <1>3 DEF Stored, Buffers
<1>4. CASE ~statsd.use_tcp /\ buf.ids # <<>>
  <2>1. Stored(buf, id, size) = [ids |-> Append(buf.ids, id), len |-> buf.len + size.len + 1,
                                 text |-> buf.text + 1 + size.text, pool |-> buf.pool]
    BY <1>4 DEF Stored, Buffers
  <2>2. QED
    BY <1>1, <1>2, <2>1 DEF Buffers
<1>5. CASE ~statsd.use_tcp /\ buf.ids = <<>>
  BY <1>1, <1>2, <1>5 DEF Stored, Buffers
<1>6. QED
  BY <1>3, <1>4, <1>5

LEMMA StoreType ==
  ASSUME next \in Ids, NEW rest \in Seq(Frames), NEW buf \in Buffers,
         NEW size \in Sizes, NEW now, Store(rest, buf, size, now)
  PROVE  /\ metrics' \in Buffers
         /\ next' \in Ids
         /\ calls' \in Seq(Frames)
<1>1. Stored(buf, next, size) \in Buffers
  BY StoredType
<1>2. Sending(Stored(buf, next, size), "done") \in Frames
  BY <1>1, FrameTypes
<1>3. QED
  BY <1>1, <1>2, AppendProperties DEF Store, Ids

LEMMA SendtoType ==
  ASSUME TypeOK, NEW ok \in BOOLEAN, SendtoReturns(ok)
  PROVE  /\ tried' \subseteq Ids
         /\ packet' \in Buffers
         /\ delivered' \in Seq(Ids)
<1>1. Top \in Frames
  BY StackTypes DEF TypeOK, SendtoReturns, InSendto
<1>2. Top.buf \in Buffers /\ Top.buf.ids \in Seq(Ids)
  BY <1>1 DEF Frames, Buffers
<1>3. Range(Top.buf.ids) \subseteq Ids
  BY <1>2, RangeOfSeq
<1>4. delivered \o Top.buf.ids \in Seq(Ids)
  BY <1>2, ConcatProperties DEF TypeOK
<1>5. QED
  BY <1>2, <1>3, <1>4 DEF SendtoReturns, TypeOK

LEMMA ClearPoolType ==
  ASSUME TypeOK, ClearPool
  PROVE  destroyed' \subseteq Ids
  BY DEF TypeOK, ClearPool, Buffers, Ids

LEMMA InitType == Init => TypeOK
<1>1. <<>> \in Seq(Ids) /\ <<>> \in Seq(Frames)
  BY EmptySeq
<1>2. NoMetrics \in Buffers
  BY <1>1 DEF NoMetrics, Buffers
<1>3. SUFFICES ASSUME Init PROVE TypeOK
  OBVIOUS
<1>4. /\ alive \in BOOLEAN /\ returned \in BOOLEAN
      /\ statsd \in [use_tcp : BOOLEAN, fd : {"none", "open", "bad"}]
  BY <1>3 DEF Init, NULL
<1>5. /\ metrics \in Buffers /\ calls \in Seq(Frames) /\ opens \in Nat /\ next \in Ids
      /\ tried \subseteq Ids /\ packet \in Buffers /\ delivered \in Seq(Ids)
      /\ destroyed \subseteq Ids /\ stranded \subseteq Ids
  BY <1>1, <1>2, <1>3 DEF Init, Ids
<1>6. QED
  BY <1>4, <1>5 DEF TypeOK

(* Type correctness is inductive by itself; one step per action. *)
LEMMA StepType == TypeOK /\ [Next]_vars => TypeOK'
<1> SUFFICES ASSUME TypeOK, [Next]_vars PROVE TypeOK'
  OBVIOUS
<1>1. CASE \E use_tcp \in Transports : Open(use_tcp)
  BY <1>1, ClientAssumption DEF Open, TypeOK
<1>2. CASE SetFd
  BY <1>2 DEF SetFd, TypeOK
<1>3. CASE \E n \in Lens, now \in BOOLEAN : Write(n, now)
  <2>1. PICK n \in Lens, now \in BOOLEAN : Write(n, now)
    BY <1>3
  <2>2. Formatted(n) \in Sizes
    BY FormattedFits
  <2>3. Caller \in Seq(Frames)
    BY CallerType DEF TypeOK
  <2>4. metrics' \in Buffers /\ next' \in Ids /\ calls' \in Seq(Frames)
    <3>1. CASE Store(Caller, metrics, Formatted(n), now)
      BY <2>2, <2>3, <3>1, StoreType DEF TypeOK
    <3>2. CASE /\ calls' = Append(Caller, MakingRoom(metrics, Formatted(n), now))
               /\ UNCHANGED <<metrics, next>>
      BY <2>2, <2>3, <3>2, FrameTypes, AppendProperties DEF TypeOK
    <3>3. QED
      BY <2>1, <3>1, <3>2 DEF Write
  <2>5. QED
    BY <2>1, <2>4 DEF Write, TypeOK
<1>4. CASE \E then \in {"done", "close", "exit"} : SendAll(then)
  <2>1. PICK then \in {"done", "close", "exit"} : SendAll(then)
    BY <1>4
  <2>2. Sending(metrics, then) \in Frames
    BY FrameTypes DEF TypeOK
  <2>3. calls' \in Seq(Frames)
    BY <2>1, <2>2, AppendProperties DEF SendAll, TypeOK
  <2>4. QED
    BY <2>1, <2>3 DEF SendAll, TypeOK
<1>5. CASE \E ok \in BOOLEAN : Return(ok)
  <2>1. PICK ok \in BOOLEAN : Return(ok)
    BY <1>5
  <2>2. Rest \in Seq(Frames) /\ NoMetrics \in Buffers
    BY <2>1, StackTypes, FrameTypes DEF Return, SendtoReturns, InSendto, TypeOK
  <2>3. QED
    BY <2>1, <2>2, SendtoType, ClearPoolType DEF Return, TypeOK
<1>6. CASE \E ok \in BOOLEAN : ReturnToStore(ok)
  <2>1. PICK ok \in BOOLEAN : ReturnToStore(ok)
    BY <1>6
  <2>2. Rest \in Seq(Frames) /\ Top \in Frames /\ NoMetrics \in Buffers
    BY <2>1, StackTypes, FrameTypes DEF ReturnToStore, SendtoReturns, InSendto, TypeOK
  <2>3. Top.size \in Sizes
    BY <2>2 DEF Frames
  <2>4. metrics' \in Buffers /\ next' \in Ids /\ calls' \in Seq(Frames)
    BY <2>1, <2>2, <2>3, StoreType DEF ReturnToStore, TypeOK
  <2>5. QED
    BY <2>1, <2>4, SendtoType, ClearPoolType DEF ReturnToStore, TypeOK
<1>7. CASE \E ok \in BOOLEAN : ReturnToClose(ok)
  <2>1. PICK ok \in BOOLEAN : ReturnToClose(ok)
    BY <1>7
  <2>2. Rest \in Seq(Frames) /\ NoMetrics \in Buffers
    BY <2>1, StackTypes, FrameTypes DEF ReturnToClose, SendtoReturns, InSendto, TypeOK
  <2>3. QED
    BY <2>1, <2>2, SendtoType, ClearPoolType DEF ReturnToClose, TypeOK, NULL
<1>8. CASE Interrupt
  <2>1. calls' \in Seq(Frames)
    BY <1>8, FrameTypes, AppendProperties DEF Interrupt, TypeOK
  <2>2. QED
    BY <1>8, <2>1 DEF Interrupt, TypeOK
<1>9. CASE HandlerReturns
  <2>1. Rest \in Seq(Frames)
    BY <1>9, StackTypes DEF HandlerReturns, InHandler, TypeOK
  <2>2. Range(metrics.ids) \subseteq Ids
    BY RangeOfSeq DEF TypeOK, Buffers
  <2>3. returned' \in BOOLEAN /\ stranded' \subseteq Ids
    BY <1>9, <2>2 DEF HandlerReturns, TypeOK
  <2>4. QED
    BY <1>9, <2>1, <2>3 DEF HandlerReturns, TypeOK
<1>10. CASE UNCHANGED vars
  BY <1>10 DEF vars, TypeOK
<1>11. QED
  BY <1>1, <1>2, <1>3, <1>4, <1>5, <1>6, <1>7, <1>8, <1>9, <1>10
  DEF Next, Api, SendEnds

(* The client's state has its type in every behaviour. *)
THEOREM TypeCorrect == Spec => []TypeOK
<1>1. QED
  BY InitType, StepType, PTL DEF Spec
-----------------------------------------------------------------------------
(* OversizeOnlyAlone and LenCoversText speak of the buffer and of the last *)
(* packet.  A packet is a buffer that was handed to a send some steps ago, *)
(* and a metric may wait in a frame until there is room for it, so the     *)
(* inductive invariant says the same of every frame of the stack.          *)
GoodBuffer(buf) ==
  /\ buf.len >= buf.text
  /\ buf.len > STATSD_MAX_UDP_PACKET_SIZE => Len(buf.ids) <= 1

GoodFrame(frame) ==
  /\ GoodBuffer(frame.buf)
  /\ frame.size.len >= frame.size.text

BuffersInv ==
  /\ TypeOK
  /\ GoodBuffer(metrics)
  /\ GoodBuffer(packet)
  /\ \A i \in DOMAIN calls : GoodFrame(calls[i])

LEMMA GoodFrames ==
  /\ GoodBuffer(NoMetrics)
  /\ GoodFrame(Signal)
  /\ \A buf, then : GoodBuffer(buf) => GoodFrame(Sending(buf, then))
  /\ \A buf, size, now :
       GoodBuffer(buf) /\ size.len >= size.text => GoodFrame(MakingRoom(buf, size, now))
<1>1. Len(<<>>) = 0
  OBVIOUS
<1>2. QED
  BY <1>1, ClientAssumption
  DEF GoodBuffer, GoodFrame, NoMetrics, Signal, Sending, MakingRoom, NoSize

(* Pushing a frame. *)
LEMMA GoodAppend ==
  ASSUME NEW rest \in Seq(Frames), \A i \in DOMAIN rest : GoodFrame(rest[i]),
         NEW frame \in Frames, GoodFrame(frame)
  PROVE  \A i \in DOMAIN Append(rest, frame) : GoodFrame(Append(rest, frame)[i])
<1>1. Len(rest) \in Nat /\ DOMAIN rest = 1..Len(rest)
  BY LenProperties
<1>2. DOMAIN Append(rest, frame) = 1..(Len(rest) + 1)
  BY AppendProperties, LenProperties
<1>3. \A i \in 1..Len(rest) : Append(rest, frame)[i] = rest[i]
  BY AppendProperties
<1>4. Append(rest, frame)[Len(rest) + 1] = frame
  BY AppendProperties
<1>5. QED
  BY <1>1, <1>2, <1>3, <1>4

LEMMA GoodCaller ==
  ASSUME TypeOK, \A i \in DOMAIN calls : GoodFrame(calls[i])
  PROVE  \A i \in DOMAIN Caller : GoodFrame(Caller[i])
<1>1. CASE InHandler
  <2>1. Top \in Frames /\ Rest \in Seq(Frames) /\ GoodFrame(Top)
        /\ \A i \in DOMAIN Rest : GoodFrame(Rest[i])
    BY <1>1, StackTypes DEF InHandler, TypeOK, Top
  <2>2. /\ [Top EXCEPT !.then = "handler"] \in Frames
        /\ GoodFrame([Top EXCEPT !.then = "handler"])
    BY <2>1 DEF Frames, GoodFrame
  <2>3. QED
    BY <1>1, <2>1, <2>2, GoodAppend DEF Caller
<1>2. CASE ~InHandler
  BY <1>2 DEF Caller
<1>3. QED
  BY <1>1, <1>2

(* Storing a metric in a buffer that it does not overfill. *)
LEMMA GoodStored ==
  ASSUME NEW buf \in Buffers, GoodBuffer(buf), NEW id \in Ids,
         NEW size \in Sizes, size.len >= size.text,
         statsd.use_tcp \/ ~WouldOverflow(buf, size)
  PROVE  GoodBuffer(Stored(buf, id, size))
<1>1. buf.len \in Nat /\ buf.text \in Nat /\ size.len \in Nat /\ size.text \in Nat
  BY DEF Buffers, Sizes
<1>2. Len(<<id>>) = 1
  OBVIOUS
<1>3. CASE statsd.use_tcp
  BY <1>1, <1>2, <1>3 DEF Stored, GoodBuffer
<1>4. CASE ~statsd.use_tcp /\ buf.ids # <<>>
  <2>1. Stored(buf, id, size) = [ids |-> Append(buf.ids, id), len |-> buf.len + size.len + 1,
                                 text |-> buf.text + 1 + size.text, pool |-> buf.pool]
    BY <1>4 DEF Stored, Buffers
  <2>2. buf.len + size.len + 1 <= STATSD_MAX_UDP_PACKET_SIZE
    BY <1>1, <1>4, ClientAssumption DEF WouldOverflow
  <2>3. QED
    BY <1>1, <2>1, <2>2, ClientAssumption DEF GoodBuffer
<1>5. CASE ~statsd.use_tcp /\ buf.ids = <<>>
  BY <1>1, <1>2, <1>5 DEF Stored, GoodBuffer
<1>6. QED
  BY <1>3, <1>4, <1>5

LEMMA GoodStore ==
  ASSUME next \in Ids, NEW buf \in Buffers, GoodBuffer(buf),
         NEW rest \in Seq(Frames), \A i \in DOMAIN rest : GoodFrame(rest[i]),
         NEW size \in Sizes, size.len >= size.text,
         statsd.use_tcp \/ ~WouldOverflow(buf, size),
         NEW now, Store(rest, buf, size, now)
  PROVE  GoodBuffer(metrics') /\ \A i \in DOMAIN calls' : GoodFrame(calls'[i])
<1> DEFINE stored == Stored(buf, next, size)
<1>1. stored \in Buffers /\ GoodBuffer(stored)
  BY StoredType, GoodStored
<1>2. Sending(stored, "done") \in Frames /\ GoodFrame(Sending(stored, "done"))
  BY <1>1, FrameTypes, GoodFrames
<1>3. \A i \in DOMAIN Append(rest, Sending(stored, "done")) :
        GoodFrame(Append(rest, Sending(stored, "done"))[i])
  BY <1>2, GoodAppend
<1>4. QED
  BY <1>1, <1>3 DEF Store

(* What a send gives to the network was a buffer of a frame, and returning *)
(* only shortens the stack.                                                *)
LEMMA GoodSendto ==
  ASSUME BuffersInv, NEW ok \in BOOLEAN, SendtoReturns(ok)
  PROVE  /\ GoodBuffer(packet')
         /\ \A i \in DOMAIN Rest : GoodFrame(Rest[i])
         /\ Top.size.len >= Top.size.text
<1>1. GoodFrame(Top) /\ \A i \in DOMAIN Rest : GoodFrame(Rest[i])
  BY StackTypes DEF BuffersInv, TypeOK, SendtoReturns, InSendto, Top
<1>2. QED
  BY <1>1 DEF BuffersInv, SendtoReturns, GoodFrame

LEMMA BuffersStep == BuffersInv /\ [Next]_vars => BuffersInv'
<1> SUFFICES ASSUME BuffersInv, [Next]_vars PROVE BuffersInv'
  OBVIOUS
<1> USE DEF BuffersInv
<1>0. TypeOK /\ TypeOK'
  BY StepType
<1>1. CASE \E use_tcp \in Transports : Open(use_tcp)
  BY <1>0, <1>1 DEF Open, GoodBuffer, GoodFrame
<1>2. CASE SetFd
  BY <1>0, <1>2 DEF SetFd, GoodBuffer, GoodFrame
<1>3. CASE \E n \in Lens, now \in BOOLEAN : Write(n, now)
  <2>1. PICK n \in Lens, now \in BOOLEAN : Write(n, now)
    BY <1>3
  <2>2. Formatted(n) \in Sizes /\ Formatted(n).len >= Formatted(n).text
    BY FormattedFits
  <2>3. Caller \in Seq(Frames) /\ \A i \in DOMAIN Caller : GoodFrame(Caller[i])
    BY <1>0, CallerType, GoodCaller DEF TypeOK
  <2>4. CASE ~statsd.use_tcp /\ WouldOverflow(metrics, Formatted(n))
    <3> DEFINE frame == MakingRoom(metrics, Formatted(n), now)
    <3>1. calls' = Append(Caller, frame) /\ metrics' = metrics /\ packet' = packet
      BY <2>1, <2>4 DEF Write
    <3>2. frame \in Frames /\ GoodFrame(frame)
      BY <1>0, <2>2, FrameTypes, GoodFrames DEF TypeOK
    <3>3. \A i \in DOMAIN calls' : GoodFrame(calls'[i])
      BY <2>3, <3>1, <3>2, GoodAppend
    <3>4. QED
      BY <1>0, <3>1, <3>3
  <2>5. CASE statsd.use_tcp \/ ~WouldOverflow(metrics, Formatted(n))
    <3>1. Store(Caller, metrics, Formatted(n), now) /\ packet' = packet
      BY <2>1, <2>5 DEF Write
    <3>2. GoodBuffer(metrics') /\ \A i \in DOMAIN calls' : GoodFrame(calls'[i])
      BY <1>0, <2>2, <2>3, <2>5, <3>1, GoodStore DEF TypeOK
    <3>3. QED
      BY <1>0, <3>1, <3>2
  <2>6. QED
    BY <2>4, <2>5
<1>4. CASE \E then \in {"done", "close", "exit"} : SendAll(then)
  <2>1. PICK then \in {"done", "close", "exit"} : SendAll(then)
    BY <1>4
  <2>2. Sending(metrics, then) \in Frames /\ GoodFrame(Sending(metrics, then))
    BY <1>0, FrameTypes, GoodFrames DEF TypeOK
  <2>3. \A i \in DOMAIN calls' : GoodFrame(calls'[i])
    BY <1>0, <2>1, <2>2, GoodAppend DEF SendAll, TypeOK
  <2>4. QED
    BY <1>0, <2>1, <2>3 DEF SendAll
<1>5. CASE \E ok \in BOOLEAN : Return(ok)
  BY <1>0, <1>5, GoodSendto, GoodFrames DEF Return
<1>6. CASE \E ok \in BOOLEAN : ReturnToStore(ok)
  <2>1. PICK ok \in BOOLEAN : ReturnToStore(ok)
    BY <1>6
  <2>2. /\ Rest \in Seq(Frames) /\ Top \in Frames /\ NoMetrics \in Buffers
        /\ next \in Ids
    BY <2>1, <1>0, StackTypes, FrameTypes
    DEF ReturnToStore, SendtoReturns, InSendto, TypeOK
  <2>3. Top.size \in Sizes
    BY <2>2 DEF Frames
  <2>4. ~WouldOverflow(NoMetrics, Top.size)
    BY DEF WouldOverflow, NoMetrics
  <2>5. /\ GoodBuffer(packet') /\ Top.size.len >= Top.size.text
        /\ \A i \in DOMAIN Rest : GoodFrame(Rest[i])
    BY <2>1, GoodSendto DEF ReturnToStore
  <2>6. GoodBuffer(metrics') /\ \A i \in DOMAIN calls' : GoodFrame(calls'[i])
    BY <2>1, <2>2, <2>3, <2>4, <2>5, GoodFrames, GoodStore DEF ReturnToStore
  <2>7. QED
    BY <1>0, <2>5, <2>6
<1>7. CASE \E ok \in BOOLEAN : ReturnToClose(ok)
  BY <1>0, <1>7, GoodSendto, GoodFrames DEF ReturnToClose
<1>8. CASE Interrupt
  <2>1. \A i \in DOMAIN calls' : GoodFrame(calls'[i])
    BY <1>0, <1>8, FrameTypes, GoodFrames, GoodAppend DEF Interrupt, TypeOK
  <2>2. QED
    BY <1>0, <1>8, <2>1 DEF Interrupt
<1>9. CASE HandlerReturns
  <2>1. \A i \in DOMAIN Rest : GoodFrame(Rest[i])
    BY <1>0, <1>9, StackTypes DEF HandlerReturns, InHandler, TypeOK
  <2>2. QED
    BY <1>0, <1>9, <2>1 DEF HandlerReturns
<1>10. CASE UNCHANGED vars
  BY <1>0, <1>10 DEF vars
<1>11. QED
  BY <1>1, <1>2, <1>3, <1>4, <1>5, <1>6, <1>7, <1>8, <1>9, <1>10
  DEF Next, Api, SendEnds

LEMMA BuffersInvariant == Spec => []BuffersInv
<1>1. Init => BuffersInv
  BY InitType, GoodFrames DEF Init, BuffersInv
<1>2. QED
  BY <1>1, BuffersStep, PTL DEF Spec

(* Whatever the transport, and whatever handlers do inside a send, no      *)
(* datagram of several metrics exceeds the maximal packet size.            *)
THEOREM BatchingRespectsPacketSize == Spec => []OversizeOnlyAlone
<1>1. BuffersInv => OversizeOnlyAlone
  BY DEF BuffersInv, GoodBuffer, OversizeOnlyAlone
<1>2. QED
  BY <1>1, BuffersInvariant, PTL

(* No send leaves the end of the buffer behind. *)
THEOREM LengthCoversText == Spec => []LenCoversText
<1>1. BuffersInv => LenCoversText
  BY DEF BuffersInv, GoodBuffer, LenCoversText
<1>2. QED
  BY <1>1, BuffersInvariant, PTL
-----------------------------------------------------------------------------
(* The shape of the call stack.  A handler interrupts a send and never     *)
(* another handler, only the innermost can be one that has not written     *)
(* yet, and a send under way inside another was begun by a handler that    *)
(* wrote.  A new client is made only when no call is in progress, so that  *)
(* a client is freed either there or at the end of the process.            *)
IsHandler(frame) == frame.then \in {"signal", "handler"}

Nested(s) ==
  \A i \in DOMAIN s :
    /\ s[i].then = "signal" => i = Len(s)
    /\ s[i].then = "close" => i = 1
    /\ IsHandler(s[i]) => i > 1 /\ ~IsHandler(s[i - 1])
    /\ i > 1 /\ ~IsHandler(s[i]) => s[i - 1].then = "handler"

Closed == ~IsOpen => metrics = NoMetrics /\ (alive => calls = <<>>)

StackInv == TypeOK /\ Nested(calls) /\ Closed

(* The stack s is rest with a frame on top. *)
OnTop(frame, rest, s) ==
  /\ frame \in Frames /\ rest \in Seq(Frames) /\ s \in Seq(Frames)
  /\ Len(rest) \in Nat /\ Len(s) = Len(rest) + 1
  /\ DOMAIN rest = 1..Len(rest) /\ DOMAIN s = 1..(Len(rest) + 1)
  /\ rest = <<>> <=> Len(rest) = 0
  /\ s # <<>>
  /\ \A i \in 1..Len(rest) : s[i] = rest[i]
  /\ s[Len(rest) + 1] = frame

LEMMA Pushed ==
  ASSUME NEW rest \in Seq(Frames), NEW frame \in Frames
  PROVE  OnTop(frame, rest, Append(rest, frame))
<1>1. /\ Len(rest) \in Nat /\ DOMAIN rest = 1..Len(rest)
      /\ rest = <<>> <=> Len(rest) = 0
  BY LenProperties, EmptySeq
<1>2. /\ Append(rest, frame) \in Seq(Frames)
      /\ Len(Append(rest, frame)) = Len(rest) + 1
  BY AppendProperties
<1>3. DOMAIN Append(rest, frame) = 1..(Len(rest) + 1) /\ Append(rest, frame) # <<>>
  BY <1>1, <1>2, LenProperties, EmptySeq
<1>4. /\ \A i \in 1..Len(rest) : Append(rest, frame)[i] = rest[i]
      /\ Append(rest, frame)[Len(rest) + 1] = frame
  BY AppendProperties
<1>5. QED
  BY <1>1, <1>2, <1>3, <1>4 DEF OnTop

LEMMA Popped ==
  ASSUME calls \in Seq(Frames), calls # <<>>
  PROVE  OnTop(Top, Rest, calls)
<1>1. Len(calls) \in Nat \ {0} /\ DOMAIN calls = 1..Len(calls)
  BY LenProperties, EmptySeq
<1>2. /\ Rest \in Seq(Frames) /\ Top \in Frames
      /\ \A i \in DOMAIN Rest : Rest[i] = calls[i]
  BY StackTypes
<1>3. Len(Rest) = Len(calls) - 1
  BY <1>1 DEF Rest
<1>4. DOMAIN Rest = 1..Len(Rest) /\ (Rest = <<>> <=> Len(Rest) = 0)
  BY <1>2, LenProperties, EmptySeq
<1>5. QED
  BY <1>1, <1>2, <1>3, <1>4 DEF Top, OnTop

(* A handler that writes is from then on one that has written. *)
Woken == [Top EXCEPT !.then = "handler"]

LEMMA Calling ==
  ASSUME calls \in Seq(Frames), InControl
  PROVE  \/ Caller = calls /\ calls = <<>>
         \/ /\ OnTop(Woken, Rest, Caller) /\ OnTop(Top, Rest, calls)
            /\ IsHandler(Top) /\ Woken.then = "handler" /\ Woken.buf = Top.buf
<1>1. CASE InHandler
  <2>1. calls # <<>> /\ IsHandler(Top)
    BY <1>1 DEF InHandler, IsHandler
  <2>2. OnTop(Top, Rest, calls)
    BY <2>1, Popped
  <2>3. Top \in Frames /\ Rest \in Seq(Frames)
    BY <2>2 DEF OnTop
  <2>4. Woken \in Frames /\ Woken.then = "handler" /\ Woken.buf = Top.buf
    BY <2>3 DEF Frames, Woken
  <2>5. Caller = Append(Rest, Woken)
    BY <1>1 DEF Caller, Woken
  <2>6. QED
    BY <2>1, <2>2, <2>3, <2>4, <2>5, Pushed
<1>2. CASE ~InHandler
  BY <1>2 DEF Caller, InControl, InSendto
<1>3. QED
  BY <1>1, <1>2

LEMMA NestedPush ==
  ASSUME NEW rest, NEW s, NEW frame, OnTop(frame, rest, s), Nested(rest), ~IsHandler(frame),
         rest # <<>> => rest[Len(rest)].then = "handler" /\ frame.then # "close"
  PROVE  Nested(s)
  BY DEF Nested, IsHandler, OnTop

LEMMA NestedHandler ==
  ASSUME NEW rest, NEW s, NEW frame, OnTop(frame, rest, s), Nested(rest), IsHandler(frame),
         rest # <<>>, ~IsHandler(rest[Len(rest)])
  PROVE  Nested(s)
  BY DEF Nested, IsHandler, OnTop

LEMMA NestedPop ==
  ASSUME NEW rest, NEW s, NEW frame, OnTop(frame, rest, s), Nested(s)
  PROVE  /\ Nested(rest)
         /\ rest # <<>> /\ ~IsHandler(frame) => rest[Len(rest)].then = "handler"
         /\ IsHandler(frame) => rest # <<>> /\ ~IsHandler(rest[Len(rest)])
         /\ frame.then = "close" => rest = <<>>
<1> DEFINE n == Len(rest)
<1>1. /\ n \in Nat /\ Len(s) = n + 1 /\ s[n + 1] = frame /\ n + 1 \in DOMAIN s
      /\ DOMAIN rest = 1..n /\ 1..n \subseteq DOMAIN s
      /\ \A i \in 1..n : s[i] = rest[i]
      /\ rest = <<>> <=> n = 0
  BY DEF OnTop
<1>2. n > 0 => n \in 1..n /\ s[n] = rest[n]
  BY <1>1
<1> HIDE DEF n
<1>3. \A i \in 1..n : s[i].then # "signal"
  BY <1>1 DEF Nested
<1>4. Nested(rest)
  BY <1>1, <1>3 DEF Nested, IsHandler
<1>5. /\ rest # <<>> /\ ~IsHandler(frame) => s[n].then = "handler"
      /\ IsHandler(frame) => n > 0 /\ ~IsHandler(s[n])
      /\ frame.then = "close" => n = 0
  BY <1>1 DEF Nested
<1>6. QED
  BY <1>1, <1>2, <1>4, <1>5 DEF n

(* The stack that a call of the client is made from. *)
LEMMA NestedCaller ==
  ASSUME calls \in Seq(Frames), Nested(calls), InControl
  PROVE  /\ Nested(Caller)
         /\ Caller # <<>> => Caller[Len(Caller)].then = "handler"
<1>1. CASE Caller = calls /\ calls = <<>>
  BY <1>1
<1>2. CASE /\ OnTop(Woken, Rest, Caller) /\ OnTop(Top, Rest, calls)
           /\ IsHandler(Top) /\ Woken.then = "handler"
  <2>1. Nested(Rest) /\ Rest # <<>> /\ ~IsHandler(Rest[Len(Rest)])
    BY <1>2, NestedPop
  <2>2. Nested(Caller)
    BY <1>2, <2>1, NestedHandler DEF IsHandler
  <2>3. Caller[Len(Caller)] = Woken
    BY <1>2 DEF OnTop
  <2>4. QED
    BY <1>2, <2>2, <2>3
<1>3. QED
  BY <1>1, <1>2, Calling

LEMMA SendsAreNoHandlers ==
  /\ \A buf, size, now : ~IsHandler(MakingRoom(buf, size, now))
  /\ \A buf, then : then \in {"done", "close", "exit"} => ~IsHandler(Sending(buf, then))
  BY DEF IsHandler, MakingRoom, Sending

LEMMA StackStep == StackInv /\ [Next]_vars => StackInv'
<1> SUFFICES ASSUME StackInv, [Next]_vars PROVE Nested(calls') /\ Closed'
  BY StepType DEF StackInv
<1>0. /\ TypeOK /\ calls \in Seq(Frames) /\ metrics \in Buffers
      /\ NoMetrics \in Buffers /\ next \in Ids
      /\ Nested(calls) /\ Closed
  BY FrameTypes DEF StackInv, TypeOK
<1>1. CASE \E use_tcp \in Transports : Open(use_tcp)
  BY <1>0, <1>1 DEF Open, Closed, IsOpen
<1>2. CASE SetFd
  BY <1>0, <1>2 DEF SetFd, Closed, IsOpen
<1>3. ASSUME NEW n \in Lens, NEW now \in BOOLEAN, Write(n, now)
      PROVE  Nested(calls') /\ Closed'
  <2>1. InControl /\ IsOpen /\ statsd' = statsd
    BY <1>3 DEF Write
  <2>2. Closed'
    BY <2>1 DEF Closed, IsOpen
  <2>3. Caller \in Seq(Frames)
    BY <1>0, CallerType
  <2>4. calls' = Caller \/ \E frame \in Frames : /\ frame.then \in {"store", "done"}
                                                 /\ calls' = Append(Caller, frame)
    BY <1>0, <1>3, FormattedFits, FrameTypes, StoredType
    DEF Write, Store, MakingRoom, Sending
  <2>5. Nested(calls')
    BY <1>0, <2>1, <2>3, <2>4, NestedCaller, NestedPush, Pushed DEF IsHandler
  <2>6. QED
    BY <2>2, <2>5
<1>4. ASSUME NEW then \in {"done", "close", "exit"}, SendAll(then)
      PROVE  Nested(calls') /\ Closed'
  <2> DEFINE frame == Sending(metrics, then)
  <2>1. /\ frame \in Frames /\ frame.then = then /\ ~IsHandler(frame)
        /\ calls' = Append(calls, frame)
    BY <1>0, <1>4, FrameTypes, SendsAreNoHandlers DEF SendAll, Sending
  <2> HIDE DEF frame
  <2>2. calls # <<>> => calls[Len(calls)].then = "handler" /\ frame.then # "close"
    BY <1>4, <2>1 DEF SendAll, Top
  <2>3. Nested(calls')
    BY <1>0, <2>1, <2>2, NestedPush, Pushed
  <2>4. Closed'
    BY <1>4 DEF SendAll, Closed, IsOpen
  <2>5. QED
    BY <2>3, <2>4
<1>5. ASSUME NEW ok \in BOOLEAN, Return(ok) \/ ReturnToStore(ok) \/ ReturnToClose(ok)
      PROVE  Nested(calls') /\ Closed'
  <2>1. SendtoReturns(ok) /\ alive /\ calls # <<>> /\ ~IsHandler(Top)
    BY <1>5 DEF Return, ReturnToStore, ReturnToClose, SendtoReturns, InSendto, InHandler,
                IsHandler
  <2>2. OnTop(Top, Rest, calls)
    BY <1>0, <2>1, Popped
  <2>3. /\ Nested(Rest) /\ Rest \in Seq(Frames) /\ Top \in Frames
        /\ Rest # <<>> => Rest[Len(Rest)].then = "handler"
        /\ Top.then = "close" => Rest = <<>>
    BY <1>0, <2>1, <2>2, NestedPop DEF OnTop
  <2>4. IsOpen
    BY <1>0, <2>1 DEF Closed
  <2>5. CASE Return(ok)
    BY <2>3, <2>4, <2>5 DEF Return, Closed, IsOpen
  <2>6. CASE ReturnToStore(ok)
    <3>1. calls' = Rest \/ \E frame \in Frames : /\ frame.then = "done"
                                                 /\ calls' = Append(Rest, frame)
      <4>1. Top.size \in Sizes
        BY <2>3 DEF Frames
      <4>2. QED
        BY <1>0, <2>6, <4>1, FrameTypes, StoredType DEF ReturnToStore, Store, Sending
    <3>2. Nested(calls')
      BY <2>3, <3>1, NestedPush, Pushed DEF IsHandler
    <3>3. Closed'
      BY <2>4, <2>6 DEF ReturnToStore, Closed, IsOpen
    <3>4. QED
      BY <3>2, <3>3
  <2>7. CASE ReturnToClose(ok)
    BY <2>3, <2>7 DEF ReturnToClose, Closed, IsOpen
  <2>8. QED
    BY <1>5, <2>5, <2>6, <2>7
<1>6. CASE Interrupt
  <2>1. calls # <<>> /\ ~IsHandler(calls[Len(calls)]) /\ calls' = Append(calls, Signal) /\ alive
    BY <1>6 DEF Interrupt, InSendto, InHandler, IsHandler, Top
  <2>2. Signal \in Frames /\ IsHandler(Signal)
    BY <1>0, FrameTypes DEF IsHandler, Signal
  <2>3. Nested(calls')
    BY <1>0, <2>1, <2>2, NestedHandler, Pushed
  <2>4. Closed'
    BY <1>0, <1>6, <2>1 DEF Interrupt, Closed, IsOpen
  <2>5. QED
    BY <2>3, <2>4
<1>7. CASE HandlerReturns
  <2>1. calls # <<>> /\ calls' = Rest /\ alive
    BY <1>7 DEF HandlerReturns, InHandler
  <2>2. Nested(calls')
    BY <1>0, <2>1, Popped, NestedPop
  <2>3. Closed'
    BY <1>0, <1>7, <2>1 DEF HandlerReturns, Closed, IsOpen
  <2>4. QED
    BY <2>2, <2>3
<1>8. CASE UNCHANGED vars
  BY <1>0, <1>8 DEF vars, Closed, IsOpen
<1>9. QED
  BY <1>1, <1>2, <1>3, <1>4, <1>5, <1>6, <1>7, <1>8 DEF Next, Api, SendEnds

LEMMA StackInvariant == Spec => []StackInv
<1>1. Init => StackInv
  BY InitType DEF Init, StackInv, Nested, Closed
<1>2. QED
  BY <1>1, StackStep, PTL DEF Spec
-----------------------------------------------------------------------------
(* The metrics of a buffer of none, and of one. *)
LEMMA RangeOfNone == Range(<<>>) = {}
<1>1. DOMAIN <<>> = {}
  OBVIOUS
<1>2. QED
  BY <1>1 DEF Range

LEMMA RangeOfOne == \A x : Range(<<x>>) = {x}
<1> SUFFICES ASSUME NEW x PROVE Range(<<x>>) = {x}
  OBVIOUS
<1>1. DOMAIN <<x>> = {1} /\ <<x>>[1] = x
  OBVIOUS
<1>2. QED
  BY <1>1 DEF Range
=============================================================================
