------------------------ MODULE StatsdReentry_proofs ------------------------
(***************************************************************************)
(* Proofs about sessions that end inside a handler: what the connection    *)
(* and the sql gauge are off by, for any servers, configurations and       *)
(* bounds, and any number of interrupted exit handlers.                    *)
(***************************************************************************)
EXTENDS StatsdReentry, StatsdGauges_proofs, SequenceTheorems

(* What an exit handler has written when it is interrupted. *)
Written(n) == Range(SubSeq(ExitSequence, 1, n))

(* The gauges of the exit: connection comes first, and the database        *)
(* connections, if there are any, last.                                    *)
ExitOrder ==
  /\ ExitSequence \in Seq(Metrics)
  /\ Len(ExitSequence) \in Nat \ {0}
  /\ ExitSequence[1] = Gauge("connection", -1)
  /\ \A i \in 1..Len(ExitSequence) :
       ExitSequence[i].type = "g" =>
         \/ ExitSequence[i] \in {Gauge("connection", -1), Gauge(proto, -1)}
         \/ /\ i = Len(ExitSequence) /\ statsd_sql_conn_count > 0
            /\ ExitSequence[i] = Gauge("sql", SqlAtExit)
  /\ statsd_sql_conn_count > 0 =>
       ExitSequence[Len(ExitSequence)] = Gauge("sql", SqlAtExit)

LEMMA ConcatIs ==
  ASSUME NEW S, NEW s1 \in Seq(S), NEW s2 \in Seq(S), NEW t \in Seq(S),
         Len(t) = Len(s1) + Len(s2),
         \A i \in 1..Len(s1) : t[i] = s1[i],
         \A i \in 1..Len(s2) : t[Len(s1) + i] = s2[i]
  PROVE  s1 \o s2 = t
<1> DEFINE s == s1 \o s2
<1>1. /\ s \in Seq(S) /\ Len(s) = Len(s1) + Len(s2)
      /\ \A i \in 1..Len(s1) + Len(s2) :
           s[i] = IF i <= Len(s1) THEN s1[i] ELSE s2[i - Len(s1)]
  BY ConcatProperties
<1>2. Len(s1) \in Nat /\ Len(s2) \in Nat
  OBVIOUS
<1> HIDE DEF s
<1>3. ASSUME NEW i \in 1..Len(s) PROVE s[i] = t[i]
  <2>1. CASE i <= Len(s1)
    BY <1>1, <1>2, <2>1
  <2>2. CASE i > Len(s1)
    <3>0. \A m, n \in Nat : \A k \in 1..(m + n) :
            k > m => k - m \in 1..n /\ m + (k - m) = k
      OBVIOUS
    <3>1. i - Len(s1) \in 1..Len(s2) /\ Len(s1) + (i - Len(s1)) = i
      <4>1. i \in 1..(Len(s1) + Len(s2))
        BY <1>1
      <4>2. QED
        BY <1>2, <2>2, <3>0, <4>1
    <3>2. t[Len(s1) + (i - Len(s1))] = s2[i - Len(s1)]
      BY <3>1, Zenon
    <3>3. s[i] = s2[i - Len(s1)]
      <4>1. i \in 1..(Len(s1) + Len(s2)) /\ ~(i <= Len(s1))
        BY <1>1, <1>2, <2>2
      <4>2. QED
        BY <1>1, <4>1
    <3>4. QED
      BY <3>1, <3>2, <3>3
  <2>3. QED
    BY <1>2, <2>1, <2>2
<1>4. s = t
  BY <1>1, <1>3, SeqEqual
<1>5. QED
  BY <1>4 DEF s

LEMMA Joined ==
  ASSUME NEW S, NEW a \in S, NEW b \in S, NEW c \in S, NEW d \in S
  PROVE  /\ <<a>> \o <<b, c>> \o <<d>> = <<a, b, c, d>>
         /\ <<a>> \o <<b, c>> \o <<>> = <<a, b, c>>
         /\ <<a>> \o <<>> \o <<d>> = <<a, d>>
         /\ <<a>> \o <<>> \o <<>> = <<a>>
<1>1. <<a>> \in Seq(S) /\ <<d>> \in Seq(S) /\ <<a, b, c>> \in Seq(S)
  OBVIOUS
<1>2. <<a>> \o <<>> = <<a>> /\ <<a, b, c>> \o <<>> = <<a, b, c>>
  BY <1>1, ConcatEmptySeq
<1>3. <<a>> \o <<d>> = <<a, d>>
  <2> DEFINE s1 == <<a>>
             s2 == <<d>>
             t == <<a, d>>
  <2>1. s1 \in Seq(S) /\ s2 \in Seq(S) /\ t \in Seq(S)
    OBVIOUS
  <2>2. Len(t) = Len(s1) + Len(s2)
    OBVIOUS
  <2>3. \A i \in 1..Len(s1) : t[i] = s1[i]
    OBVIOUS
  <2>4. \A i \in 1..Len(s2) : t[Len(s1) + i] = s2[i]
    OBVIOUS
  <2> HIDE DEF s1, s2, t
  <2>5. s1 \o s2 = t
    BY <2>1, <2>2, <2>3, <2>4, ConcatIs
  <2>6. QED
    BY <2>5 DEF s1, s2, t
<1>4. <<a>> \o <<b, c>> = <<a, b, c>>
  <2> DEFINE s1 == <<a>>
             s2 == <<b, c>>
             t == <<a, b, c>>
  <2>1. s1 \in Seq(S) /\ s2 \in Seq(S) /\ t \in Seq(S)
    OBVIOUS
  <2>2. Len(t) = Len(s1) + Len(s2)
    OBVIOUS
  <2>3. \A i \in 1..Len(s1) : t[i] = s1[i]
    OBVIOUS
  <2>4. \A i \in 1..Len(s2) : t[Len(s1) + i] = s2[i]
    OBVIOUS
  <2> HIDE DEF s1, s2, t
  <2>5. s1 \o s2 = t
    BY <2>1, <2>2, <2>3, <2>4, ConcatIs
  <2>6. QED
    BY <2>5 DEF s1, s2, t
<1>5. <<a, b, c>> \o <<d>> = <<a, b, c, d>>
  <2> DEFINE s1 == <<a, b, c>>
             s2 == <<d>>
             t == <<a, b, c, d>>
  <2>1. s1 \in Seq(S) /\ s2 \in Seq(S) /\ t \in Seq(S)
    OBVIOUS
  <2>2. Len(t) = Len(s1) + Len(s2)
    OBVIOUS
  <2>3. \A i \in 1..Len(s1) : t[i] = s1[i]
    OBVIOUS
  <2>4. \A i \in 1..Len(s2) : t[Len(s1) + i] = s2[i]
    OBVIOUS
  <2> HIDE DEF s1, s2, t
  <2>5. s1 \o s2 = t
    BY <2>1, <2>2, <2>3, <2>4, ConcatIs
  <2>6. QED
    BY <2>5 DEF s1, s2, t
<1>6. QED
  BY <1>2, <1>3, <1>4, <1>5, Zenon

LEMMA FourJoined ==
  ASSUME NEW S, NEW a \in S, NEW b \in S, NEW c \in S, NEW d \in S
  PROVE  <<a>> \o <<b, c>> \o <<d>> = <<a, b, c, d>>
  BY Joined

LEMMA FourIsSeq ==
  ASSUME NEW S, NEW a \in S, NEW b \in S, NEW c \in S, NEW d \in S
  PROVE  LET s == <<a, b, c, d>>
         IN  s \in Seq(S) /\ Len(s) = 4 /\ s[1] = a /\ s[2] = b /\ s[3] = c /\ s[4] = d
  OBVIOUS

LEMMA ExitIsOrdered ==
  ASSUME TypeOK PROVE ExitOrder
<1> DEFINE connection == Gauge("connection", -1)
           login == Gauge(proto, -1)
           duration == Timer(proto, statsd_sess_start_ms)
           sql == Gauge("sql", SqlAtExit)
<1>1. {connection, login, duration, sql} \subseteq Metrics
  <2>1. {"connection", "sql", proto} \subseteq Names
    BY DEF TypeOK, Names, ConnNames
  <2>2. statsd \in Clients /\ clock \in Int /\ statsd_sess_start_ms \in Int
    BY DEF TypeOK
  <2>3. -1 \in Int /\ SqlAtExit \in Int
    BY SessionAssumption DEF SqlAtExit, TypeOK
  <2>4. QED
    BY <2>1, <2>2, <2>3, MetricTypes
<1>2. duration.type = "ms"
  BY Kinds
<1>3. ExitSequence = <<connection>>
                       \o (IF authenticated THEN <<login, duration>> ELSE <<>>)
                       \o (IF statsd_sql_conn_count > 0 THEN <<sql>> ELSE <<>>)
  BY DEF ExitSequence
<1> HIDE DEF connection, login, duration, sql
<1> DEFINE counted == statsd_sql_conn_count > 0
<1>4. CASE authenticated /\ counted
  <2>1. ExitSequence = <<connection, login, duration, sql>>
    <3>1. <<connection>> \o <<login, duration>> \o <<sql>>
            = <<connection, login, duration, sql>>
      <4>1. /\ connection \in Metrics /\ login \in Metrics
            /\ duration \in Metrics /\ sql \in Metrics
        BY <1>1
      <4>2. QED
        BY <4>1, FourJoined, Zenon
    <3>2. QED
      BY <1>3, <1>4, <3>1, Zenon
  <2>2. /\ ExitSequence \in Seq(Metrics) /\ Len(ExitSequence) = 4
        /\ ExitSequence[1] = connection /\ ExitSequence[2] = login
        /\ ExitSequence[3] = duration /\ ExitSequence[4] = sql
    <3>1. /\ connection \in Metrics /\ login \in Metrics
          /\ duration \in Metrics /\ sql \in Metrics
      BY <1>1
    <3>2. QED
      BY <2>1, <3>1, FourIsSeq, Zenon
  <2>3. \A i \in 1..4 : i \in {1, 2, 3, 4}
    OBVIOUS
  <2>4. \A i \in 1..4 :
          ExitSequence[i].type = "g" =>
            ExitSequence[i] \in {connection, login} \/ (i = 4 /\ ExitSequence[i] = sql)
    BY <1>2, <2>2, <2>3
  <2>5. QED
    BY <1>4, <2>2, <2>4 DEF ExitOrder, connection, login, sql
<1>5. CASE authenticated /\ ~counted
  <2>1. ExitSequence = <<connection, login, duration>>
    BY <1>1, <1>3, <1>5, Joined, Zenon
  <2>2. QED
    BY <1>1, <1>2, <1>5, <2>1 DEF ExitOrder, connection, login
<1>6. CASE ~authenticated /\ counted
  <2>1. ExitSequence = <<connection, sql>>
    BY <1>1, <1>3, <1>6, Joined, Zenon
  <2>2. QED
    BY <1>1, <1>6, <2>1 DEF ExitOrder, connection, sql
<1>7. CASE ~authenticated /\ ~counted
  <2>1. ExitSequence = <<connection>>
    BY <1>1, <1>3, <1>7, Joined, Zenon
  <2>2. QED
    BY <1>1, <1>7, <2>1 DEF ExitOrder, connection
<1>8. QED
  BY <1>4, <1>5, <1>6, <1>7

LEMMA WrittenIsPrefix ==
  ASSUME TypeOK, NEW n \in 0..Len(ExitSequence)
  PROVE  /\ Written(n) = {ExitSequence[i] : i \in 1..n}
         /\ Written(n) \in SUBSET Metrics
<1>1. ExitSequence \in Seq(Metrics)
  BY ExitIsOrdered DEF ExitOrder
<1> DEFINE s == ExitSequence
           t == SubSeq(s, 1, n)
<1> HIDE DEF s
<1>2. s \in Seq(Metrics) /\ n \in 0..Len(s)
  BY <1>1 DEF s
<1>3. \A i \in 1..n : s[i] \in Metrics
  BY <1>2
<1>4. /\ t \in Seq(Metrics) /\ Len(t) = n
      /\ \A i \in 1..n : t[i] = s[i]
  <2>1. /\ t \in Seq(Metrics)
        /\ Len(t) = IF 1 <= n THEN n - 1 + 1 ELSE 0
        /\ \A i \in 1..(n - 1 + 1) : t[i] = s[1 + i - 1]
    BY <1>2, <1>3, SubSeqProperties
  <2>2. QED
    BY <1>2, <2>1
<1> HIDE DEF t
<1>5. DOMAIN t = 1..n
  BY <1>2, <1>4
<1>6. Range(t) = {s[i] : i \in 1..n}
  BY <1>4, <1>5 DEF Range
<1>7. QED
  BY <1>3, <1>6 DEF Written, s, t

(* It lowers the connection gauge by one or not yet. *)
LEMMA WrittenMovesConnection ==
  ASSUME TypeOK, NEW n \in 0..Len(ExitSequence)
  PROVE  Moves(Written(n), "connection") \in {-1, 0}
<1>1. proto # "connection"
  BY DEF TypeOK, Protocols
<1>2. ASSUME NEW m \in Written(n), m.type = "g", m.name = "connection"
      PROVE  m.val = -1
  <2>1. PICK i \in 1..n : m = ExitSequence[i]
    BY WrittenIsPrefix
  <2>2. i \in 1..Len(ExitSequence)
    <3>1. Len(ExitSequence) \in Nat
      BY ExitIsOrdered DEF ExitOrder
    <3>2. QED
      BY <2>1, <3>1
  <2>3. \/ ExitSequence[i] \in {Gauge("connection", -1), Gauge(proto, -1)}
        \/ ExitSequence[i] = Gauge("sql", SqlAtExit)
    BY <1>2, <2>1, <2>2, ExitIsOrdered, Zenon DEF ExitOrder
  <2>4. QED
    BY <1>1, <1>2, <2>1, <2>3, Kinds
<1> DEFINE ms == Written(n)
<1> HIDE DEF ms
<1>3. CASE \E m \in ms : m.type = "g" /\ m.name = "connection"
  <2>1. \A m \in ms : m.type = "g" /\ m.name = "connection" => m.val = -1
    BY <1>2 DEF ms
  <2>2. Moves(ms, "connection") = -1
    BY <1>3, <2>1, MovesOne
  <2>3. QED
    BY <2>2 DEF ms
<1>4. CASE \A m \in ms : ~(m.type = "g" /\ m.name = "connection")
  <2>1. Moves(ms, "connection") = 0
    BY <1>4, MovesNone
  <2>2. QED
    BY <2>1 DEF ms
<1>5. QED
  BY <1>3, <1>4

(* It has reported the database connections only if it wrote everything.   *)
LEMMA WrittenMovesSql ==
  ASSUME TypeOK, NEW n \in 0..Len(ExitSequence)
  PROVE  Moves(Written(n), "sql")
           = IF n = Len(ExitSequence) /\ statsd_sql_conn_count > 0 THEN SqlAtExit ELSE 0
<1>1. proto # "sql" /\ Len(ExitSequence) \in Nat \ {0}
  BY ExitIsOrdered DEF ExitOrder, TypeOK, Protocols
<1>2. ASSUME NEW m \in Written(n), m.type = "g", m.name = "sql"
      PROVE  /\ m.val = SqlAtExit
             /\ n = Len(ExitSequence) /\ statsd_sql_conn_count > 0
  <2>1. PICK i \in 1..n : m = ExitSequence[i]
    BY WrittenIsPrefix
  <2>2. i \in 1..Len(ExitSequence)
    BY <1>1, <2>1
  <2>3. \/ ExitSequence[i] \in {Gauge("connection", -1), Gauge(proto, -1)}
        \/ /\ i = Len(ExitSequence) /\ statsd_sql_conn_count > 0
           /\ ExitSequence[i] = Gauge("sql", SqlAtExit)
    BY <1>2, <2>1, <2>2, ExitIsOrdered, Zenon DEF ExitOrder
  <2>4. /\ i = Len(ExitSequence) /\ statsd_sql_conn_count > 0
        /\ m = Gauge("sql", SqlAtExit)
    BY <1>1, <1>2, <2>1, <2>3, Kinds
  <2>5. n = Len(ExitSequence)
    BY <1>1, <2>1, <2>4
  <2>6. QED
    BY <2>4, <2>5, Kinds
<1> DEFINE ms == Written(n)
<1>3. CASE n = Len(ExitSequence) /\ statsd_sql_conn_count > 0
  <2>1. n \in 1..n /\ ExitSequence[n] = Gauge("sql", SqlAtExit)
    BY <1>1, <1>3, ExitIsOrdered DEF ExitOrder
  <2>2. Gauge("sql", SqlAtExit) \in ms
    BY <2>1, WrittenIsPrefix
  <2> HIDE DEF ms
  <2>3. \E m \in ms : m.type = "g" /\ m.name = "sql"
    BY <2>2, Kinds
  <2>4. \A m \in ms : m.type = "g" /\ m.name = "sql" => m.val = SqlAtExit
    BY <1>2 DEF ms
  <2>5. Moves(ms, "sql") = SqlAtExit
    BY <2>3, <2>4, MovesOne
  <2>6. QED
    BY <1>3, <2>5 DEF ms
<1>4. CASE ~(n = Len(ExitSequence) /\ statsd_sql_conn_count > 0)
  <2>1. \A m \in ms : ~(m.type = "g" /\ m.name = "sql")
    BY <1>2, <1>4
  <2> HIDE DEF ms
  <2>2. Moves(ms, "sql") = 0
    BY <2>1, MovesNone
  <2>3. QED
    BY <1>4, <2>2 DEF ms
<1>5. QED
  BY <1>3, <1>4

(* The adjustment by a count, as the unsigned int it is printed as. *)
LEMMA SqlAtExitIs ==
  ASSUME TypeOK, statsd_sql_conn_count > 0
  PROVE  SqlAtExit = UIntWord - statsd_sql_conn_count
<1>1. statsd_sql_conn_count \in 1..(UIntWord - 1) /\ UIntWord \in Nat \ {0}
  BY SessionAssumption DEF TypeOK
<1>2. \A w \in Nat \ {0} : \A c \in 1..(w - 1) : (0 - c) % w = w - c
  OBVIOUS
<1>3. QED
  BY <1>1, <1>2 DEF SqlAtExit

(* An exit that is reported moves the sql gauge by that. *)
LEMMA ExitMovesSql ==
  ASSUME TypeOK, Exit
  PROVE  gauges'["sql"] =
           IF /\ "core.exit" \in registered /\ statsd # NULL
              /\ statsd_sql_conn_count > 0
             THEN gauges["sql"] + UIntWord - statsd_sql_conn_count ELSE gauges["sql"]
<1>0. /\ gauges \in [ConnNames -> Int] /\ "sql" \in ConnNames /\ gauges["sql"] \in Int
      /\ proto \in Protocols /\ proto # "sql"
      /\ UIntWord \in Int /\ statsd_sql_conn_count \in Int
  BY SessionAssumption DEF TypeOK, ConnNames, Protocols
<1>1. CASE "core.exit" \in registered /\ statsd # NULL
  <2>1. Emit(statsd, ExitMetrics)
    BY <1>1 DEF Exit
  <2>2. gauges'["sql"] = gauges["sql"] + Moves(ExitMetrics, "sql")
    BY <1>0, <1>1, <2>1, Emitted
  <2>3. Moves(ExitMetrics, "sql") = IF statsd_sql_conn_count > 0 THEN SqlAtExit ELSE 0
    BY <1>0, ExitMoves
  <2>4. CASE statsd_sql_conn_count > 0
    <3>1. gauges'["sql"] = gauges["sql"] + (UIntWord - statsd_sql_conn_count)
      BY <2>2, <2>3, <2>4, SqlAtExitIs
    <3>2. QED
      BY <1>0, <1>1, <2>4, <3>1
  <2>5. CASE ~(statsd_sql_conn_count > 0)
    BY <1>0, <2>2, <2>3, <2>5
  <2>6. QED
    BY <2>4, <2>5
<1>2. CASE ~("core.exit" \in registered /\ statsd # NULL)
  BY <1>2, SilentKeeps DEF Exit
<1>3. QED
  BY <1>1, <1>2
-----------------------------------------------------------------------------
(* How each interrupted handler moves the gauges it is about, and what of  *)
(* that stays in the client's buffer.                                      *)
LEMMA Held ==
  ASSUME NEW ms, Buffered(ms), NEW name \in ConnNames
  PROVE  unsent'[name] = IF use_tcp THEN unsent[name] ELSE unsent[name] + Moves(ms, name)
<1>1. CASE use_tcp
  BY <1>1 DEF Buffered
<1>2. CASE ~use_tcp
  <2>1. unsent' = [n \in ConnNames |-> unsent[n] + Moves(ms, n)]
    BY <1>2 DEF Buffered
  <2>2. QED
    BY <1>2, <2>1
<1>3. QED
  BY <1>1, <1>2

LEMMA HeldType ==
  ASSUME unsent \in [ConnNames -> Int], NEW ms \in SUBSET Metrics, Buffered(ms)
  PROVE  unsent' \in [ConnNames -> Int]
<1>1. CASE use_tcp
  BY <1>1 DEF Buffered
<1>2. CASE ~use_tcp
  <2>1. unsent' = [n \in ConnNames |-> unsent[n] + Moves(ms, n)]
    BY <1>2 DEF Buffered
  <2>2. \A n \in ConnNames : Moves(ms, n) \in Int
    BY MovesType
  <2>3. \A n \in ConnNames : unsent[n] + Moves(ms, n) \in Int
    BY <2>2
  <2>4. QED
    BY <2>1, <2>3
<1>3. QED
  BY <1>1, <1>2

LEMMA InitInterruptedMoves ==
  ASSUME ReentryTypeOK, NEW sampling, NEW handlers, NEW written \in BOOLEAN,
         InitInterrupted(sampling, handlers, written)
  PROVE  /\ gauges'["connection"] = gauges["connection"] + (IF written THEN 1 ELSE 0)
         /\ gauges'["sql"] = gauges["sql"]
         /\ unsent'["connection"]
              = unsent["connection"] + (IF written /\ ~use_tcp THEN 1 ELSE 0)
         /\ unsent'["sql"] = unsent["sql"]
<1> DEFINE client == Opens(sampling, TRUE)
           ms == IF written THEN {Gauge("connection", 1)} ELSE {}
           moved == IF written THEN 1 ELSE 0
<1>1. client # NULL /\ Emit(client, ms) /\ Buffered(ms)
  BY DEF InitInterrupted, EndsWithin
<1>2. /\ gauges \in [ConnNames -> Int] /\ {"connection", "sql"} \subseteq ConnNames
      /\ gauges["sql"] \in Int /\ gauges["connection"] \in Int
      /\ unsent["sql"] \in Int /\ unsent["connection"] \in Int
  BY DEF ReentryTypeOK, TypeOK, ConnNames
<1> HIDE DEF client
<1>3. Moves(ms, "connection") = moved /\ Moves(ms, "sql") = 0
  <2>1. CASE written
    <3>1. /\ Moves({Gauge("connection", 1)}, "connection") = 1
          /\ Moves({Gauge("connection", 1)}, "sql") = 0
      BY EventMoves
    <3>2. QED
      BY <2>1, <3>1
  <2>2. CASE ~written
    <3>1. Moves({}, "connection") = 0 /\ Moves({}, "sql") = 0
      BY MovesNone
    <3>2. QED
      BY <2>2, <3>1
  <2>3. QED
    BY <2>1, <2>2
<1> HIDE DEF ms
<1>4. /\ gauges'["connection"] = gauges["connection"] + moved
      /\ gauges'["sql"] = gauges["sql"] + 0
  BY <1>1, <1>2, <1>3, Emitted
<1>5. /\ unsent'["connection"] = IF use_tcp THEN unsent["connection"]
                                 ELSE unsent["connection"] + moved
      /\ unsent'["sql"] = IF use_tcp THEN unsent["sql"] ELSE unsent["sql"] + 0
  BY <1>1, <1>2, <1>3, Held
<1>6. QED
  BY <1>2, <1>4, <1>5

LEMMA SqlInterruptedMoves ==
  ASSUME TypeOK, NEW opens_one \in BOOLEAN, NEW written \in BOOLEAN,
         SqlInterrupted(opens_one, written)
  PROVE  /\ gauges'["connection"] = gauges["connection"]
         /\ gauges'["sql"] = IF ~written THEN gauges["sql"]
                             ELSE IF opens_one THEN gauges["sql"] + 1
                             ELSE gauges["sql"] - 1
<1>1. /\ gauges \in [ConnNames -> Int] /\ {"connection", "sql"} \subseteq ConnNames
      /\ gauges["sql"] \in Int /\ gauges["connection"] \in Int
  BY DEF TypeOK, ConnNames
<1> DEFINE adjust == IF opens_one THEN 1 ELSE -1
           ms == IF written THEN {Gauge("sql", adjust)} ELSE {}
<1>2. statsd # NULL /\ Emit(statsd, ms)
  BY DEF SqlInterrupted
<1>3. /\ Moves(ms, "connection") = 0
      /\ Moves(ms, "sql") = IF written THEN adjust ELSE 0
  <2>1. CASE written
    <3>1. /\ Moves({Gauge("sql", adjust)}, "connection") = 0
          /\ Moves({Gauge("sql", adjust)}, "sql") = adjust
      BY MovesOfAlone
    <3>2. QED
      BY <2>1, <3>1
  <2>2. CASE ~written
    <3>1. Moves({}, "connection") = 0 /\ Moves({}, "sql") = 0
      BY MovesNone
    <3>2. QED
      BY <2>2, <3>1
  <2>3. QED
    BY <2>1, <2>2
<1> HIDE DEF ms
<1>4. /\ gauges'["connection"] = gauges["connection"] + Moves(ms, "connection")
      /\ gauges'["sql"] = gauges["sql"] + Moves(ms, "sql")
  BY <1>1, <1>2, Emitted
<1>5. QED
  BY <1>1, <1>3, <1>4

LEMMA ExitInterruptedMoves ==
  ASSUME TypeOK, NEW n, ExitInterrupted(n)
  PROVE  /\ gauges'["connection"] \in {gauges["connection"], gauges["connection"] - 1}
         /\ gauges'["sql"] =
              IF n = Len(ExitSequence) /\ statsd_sql_conn_count > 0
                THEN gauges["sql"] + UIntWord - statsd_sql_conn_count
                ELSE gauges["sql"]
<1>1. /\ gauges \in [ConnNames -> Int] /\ {"connection", "sql"} \subseteq ConnNames
      /\ gauges["sql"] \in Int /\ gauges["connection"] \in Int
      /\ UIntWord \in Int /\ statsd_sql_conn_count \in Int
  BY SessionAssumption DEF TypeOK, ConnNames
<1>2. statsd # NULL /\ n \in 0..Len(ExitSequence) /\ Emit(statsd, Written(n))
  BY DEF ExitInterrupted, Written
<1>3. /\ gauges'["connection"] = gauges["connection"] + Moves(Written(n), "connection")
      /\ gauges'["sql"] = gauges["sql"] + Moves(Written(n), "sql")
  BY <1>1, <1>2, Emitted
<1>4. gauges'["connection"] \in {gauges["connection"], gauges["connection"] - 1}
  <2>1. Moves(Written(n), "connection") \in {-1, 0}
    BY <1>2, WrittenMovesConnection
  <2>2. QED
    BY <1>1, <1>3, <2>1
<1>5. Moves(Written(n), "sql")
        = IF n = Len(ExitSequence) /\ statsd_sql_conn_count > 0 THEN SqlAtExit ELSE 0
  BY <1>2, WrittenMovesSql
<1>6. CASE n = Len(ExitSequence) /\ statsd_sql_conn_count > 0
  <2>1. gauges'["sql"] = gauges["sql"] + (UIntWord - statsd_sql_conn_count)
    BY <1>3, <1>5, <1>6, SqlAtExitIs
  <2>2. gauges'["sql"] = gauges["sql"] + UIntWord - statsd_sql_conn_count
    BY <1>1, <2>1
  <2>3. QED
    BY <1>4, <1>6, <2>2
<1>7. CASE ~(n = Len(ExitSequence) /\ statsd_sql_conn_count > 0)
  BY <1>1, <1>3, <1>4, <1>5, <1>7
<1>8. QED
  BY <1>6, <1>7
-----------------------------------------------------------------------------
LEMMA InitInterruptedType ==
  ASSUME TypeOK, NEW sampling \in Samplings, NEW handlers \in SUBSET Events,
         NEW written \in BOOLEAN, InitInterrupted(sampling, handlers, written)
  PROVE  /\ TypeOK'
         /\ \E ms \in SUBSET Metrics : EndsWithin("init", ms)
<1> DEFINE client == Opens(sampling, TRUE)
           ms == IF written THEN {Gauge("connection", 1)} ELSE {}
<1>1. client \in Clients /\ Emit(client, ms) /\ EndsWithin("init", ms)
  BY ConfigTypes DEF Opens, Clients, InitInterrupted
<1>2. ms \in SUBSET Metrics
  BY DEF Gauge, Metrics, Names, ConnNames, Rates, Samplings
<1>3. gauges \in [ConnNames -> Int]
  BY DEF TypeOK
<1> HIDE DEF ms
<1>4. /\ out' \subseteq [dest : Dests, metric : Metrics]
      /\ gauges' \in [ConnNames -> Int]
  BY <1>1, <1>2, <1>3, EmitType
<1>5. registered' \subseteq Events
  BY DEF InitInterrupted, Events
<1>6. statsd_exclude' \subseteq Commands /\ statsd_sampling' \in Samplings
  BY ConfigTypes DEF InitInterrupted, Filter
<1>7. clients' \in Nat /\ began' \in 0..MaxClock
  BY SessionAssumption DEF InitInterrupted, TypeOK
<1>8. statsd' \in Clients /\ statsd_engine' \in BOOLEAN
  BY <1>1 DEF InitInterrupted
<1> HIDE DEF client
<1>9. /\ phase' = "running" /\ reinit' = FALSE
      /\ UNCHANGED <<statsd_sess_start_ms, statsd_sql_conn_count, conf, main_server,
                     proto, authenticated, cmd, clock, hosts, sql_open, channels,
                     sql_missed>>
  BY DEF InitInterrupted
<1>10. QED
  BY <1>1, <1>2, <1>4, <1>5, <1>6, <1>7, <1>8, <1>9 DEF TypeOK

LEMMA ReentryStepType ==
  ReentryTypeOK /\ [ReentryNext]_<<vars, reentry_vars>> => ReentryTypeOK'
<1> SUFFICES ASSUME ReentryTypeOK, [ReentryNext]_<<vars, reentry_vars>>
             PROVE  ReentryTypeOK'
  OBVIOUS
<1> USE DEF module_vars, core_vars, history_vars
<1> DEFINE Kept == UNCHANGED reentry_vars
           Ends == \E handler \in Handlers, ms \in SUBSET Metrics : EndsWithin(handler, ms)
<1>0. /\ TypeOK /\ gauges \in [ConnNames -> Int] /\ statsd \in Clients
      /\ unsent \in [ConnNames -> Int] /\ NoneUnsent \in [ConnNames -> Int]
  BY DEF ReentryTypeOK, TypeOK, NoneUnsent
<1>1. ASSUME TypeOK', Kept \/ Ends PROVE ReentryTypeOK'
  <2>1. unsent' \in [ConnNames -> Int]
    BY <1>0, <1>1, HeldType DEF reentry_vars, EndsWithin
  <2>2. QED
    BY <1>1, <2>1 DEF ReentryTypeOK, reentry_vars, EndsWithin
<1>2. ASSUME Next, Kept PROVE ReentryTypeOK'
  BY <1>0, <1>1, <1>2, StepType
<1>3. ASSUME NEW written \in BOOLEAN, StartInterrupted(written) PROVE ReentryTypeOK'
  <2>1. InitInterrupted(statsd_sampling, registered, written) /\ "init" \in Handlers
    BY <1>3 DEF StartInterrupted, Handlers
  <2>2. statsd_sampling \in Samplings /\ registered \in SUBSET Events
    BY <1>0 DEF TypeOK
  <2>3. TypeOK' /\ Ends
    BY <1>0, <2>1, <2>2, InitInterruptedType
  <2>4. QED
    BY <1>1, <2>3
<1>4. ASSUME NEW written \in BOOLEAN, ReinitInterrupted(written) PROVE ReentryTypeOK'
  <2>1. InitInterrupted("all", registered \ Unregistered, written) /\ "init" \in Handlers
    BY <1>4 DEF ReinitInterrupted, Handlers
  <2>2. "all" \in Samplings /\ registered \ Unregistered \in SUBSET Events
    BY <1>0 DEF TypeOK, Samplings
  <2>3. TypeOK' /\ Ends
    BY <1>0, <2>1, <2>2, InitInterruptedType
  <2>4. QED
    BY <1>1, <2>3
<1>5. CASE CloseInterrupted
  <2>1. /\ Silent /\ EndsWithin("reinit", {})
        /\ registered' \subseteq registered
        /\ statsd_engine' = FALSE /\ statsd_exclude' = {} /\ statsd_sampling' = "all"
        /\ UNCHANGED <<statsd, statsd_sess_start_ms, statsd_sql_conn_count, core_vars,
                       history_vars>>
    BY <1>5 DEF CloseInterrupted
  <2>2. TypeOK'
    BY <1>0, <2>1, SilentType DEF TypeOK, Samplings
  <2>3. Ends
    BY <2>1 DEF Handlers
  <2>4. QED
    BY <1>1, <2>2, <2>3
<1>6. ASSUME NEW opens_one \in BOOLEAN, NEW written \in BOOLEAN,
             SqlInterrupted(opens_one, written)
      PROVE  ReentryTypeOK'
  <2> DEFINE ms == IF written THEN {Gauge("sql", IF opens_one THEN 1 ELSE -1)} ELSE {}
  <2>1. ms \in SUBSET Metrics
    BY <1>0, MetricTypes DEF Names, ConnNames, TypeOK
  <2>2. /\ Emit(statsd, ms)
        /\ EndsWithin("sql-opened", ms) \/ EndsWithin("sql-closed", ms)
    BY <1>6 DEF SqlInterrupted
  <2>3. sql_open' \in 0..MaxSql
    BY <1>0, <1>6, SessionAssumption DEF SqlInterrupted, TypeOK
  <2> HIDE DEF ms
  <2>4. /\ out' \subseteq [dest : Dests, metric : Metrics]
        /\ gauges' \in [ConnNames -> Int]
    BY <1>0, <2>1, <2>2, EmitType
  <2>5. TypeOK'
    BY <1>0, <1>6, <2>3, <2>4 DEF SqlInterrupted, TypeOK
  <2>6. Ends
    BY <2>1, <2>2 DEF Handlers
  <2>7. QED
    BY <1>1, <2>5, <2>6
<1>7. ASSUME NEW n \in 0..4, ExitInterrupted(n) PROVE ReentryTypeOK'
  <2>1. n \in 0..Len(ExitSequence) /\ Emit(statsd, Written(n)) /\ Buffered(Written(n))
    BY <1>7 DEF ExitInterrupted, Written
  <2>2. Written(n) \in SUBSET Metrics
    BY <1>0, <2>1, WrittenIsPrefix
  <2>3. /\ out' \subseteq [dest : Dests, metric : Metrics]
        /\ gauges' \in [ConnNames -> Int]
        /\ unsent' \in [ConnNames -> Int]
    BY <1>0, <2>1, <2>2, EmitType, HeldType
  <2>4. statsd_sql_conn_count' \in 0..(UIntWord - 1)
    BY <1>0, <1>7, SessionAssumption DEF ExitInterrupted, CountAtClose, TypeOK
  <2>5. TypeOK'
    BY <1>0, <1>7, <2>3, <2>4 DEF ExitInterrupted, TypeOK
  <2>6. /\ use_tcp' = use_tcp /\ exits' \in 0..MaxNested
        /\ within' \in Handlers \cup {"none"}
    BY <1>7, ReentryAssumption DEF ExitInterrupted, ReentryTypeOK, Handlers
  <2>7. QED
    BY <2>3, <2>5, <2>6 DEF ReentryTypeOK
<1>8. ASSUME NEW event \in TimeoutEvents, TimeoutReported(event) PROVE ReentryTypeOK'
  <2>1. /\ CounterEvent(event) /\ event \in CounterEvents
        /\ unsent' = NoneUnsent /\ UNCHANGED <<use_tcp, within, exits>>
    BY <1>8 DEF TimeoutReported, CounterEvents
  <2>2. TypeOK'
    BY <1>0, <2>1, StepType DEF Next
  <2>3. QED
    BY <1>0, <2>1, <2>2 DEF ReentryTypeOK
<1>9. CASE SessionEnds
  <2>1. /\ Exit /\ unsent' \in {NoneUnsent, unsent} /\ UNCHANGED <<use_tcp, within, exits>>
    BY <1>9 DEF SessionEnds
  <2>2. TypeOK'
    BY <1>0, <2>1, StepType DEF Next
  <2>3. QED
    BY <1>0, <2>1, <2>2 DEF ReentryTypeOK
<1>10. CASE UNCHANGED <<vars, reentry_vars>>
  <2>1. UNCHANGED vars /\ Kept
    BY <1>10
  <2>2. TypeOK'
    BY <1>0, <2>1, StepType
  <2>3. QED
    BY <1>1, <2>1, <2>2
<1>11. QED
  BY <1>2, <1>3, <1>4, <1>5, <1>6, <1>7, <1>8, <1>9, <1>10 DEF ReentryNext

(* The types hold with ends inside handlers, too. *)
THEOREM ReentryTypeCorrect == ReentrySpec => []ReentryTypeOK
<1>1. ReentryInit => ReentryTypeOK
  BY InitType, ReentryAssumption DEF ReentryInit, ReentryTypeOK, NoneUnsent
<1>2. QED
  BY <1>1, ReentryStepType, PTL DEF ReentrySpec
-----------------------------------------------------------------------------
(* Before the first client there is no handler but that of HOST commands.  *)
Unopened == clients = 0 => registered \subseteq {"core.session-reinit"}

LEMMA UnopenedStep == FlowInv /\ Unopened /\ [Next]_vars => Unopened'
<1> SUFFICES ASSUME FlowInv, Unopened, [Next]_vars PROVE Unopened'
  OBVIOUS
<1> USE DEF module_vars, core_vars, history_vars
<1>0. clients \in Nat
  BY DEF FlowInv, SessionInv, TypeOK
<1>1. ASSUME NEW sampling, NEW handlers, NEW ok, SessInit(sampling, handlers, ok),
             clients = 0 => handlers \subseteq {"core.session-reinit"}
      PROVE  Unopened'
  <2>1. CASE clients' = 0
    <3>1. Opens(sampling, ok) = NULL /\ clients = 0
      BY <1>0, <1>1, <2>1 DEF SessInit
    <3>2. registered' = handlers \cup {"core.session-reinit"}
      BY <1>1, <3>1 DEF SessInit
    <3>3. QED
      BY <1>1, <3>1, <3>2 DEF Unopened
  <2>2. QED
    BY <2>1 DEF Unopened
<1>2. ASSUME NEW ok \in BOOLEAN, Start(ok) PROVE Unopened'
  <2>1. SessInit(statsd_sampling, registered, ok)
    BY <1>2 DEF Start
  <2>2. QED
    BY <1>1, <2>1 DEF Unopened
<1>3. ASSUME NEW ok \in BOOLEAN, Reinit(ok) PROVE Unopened'
  <2>1. SessInit("all", registered \ Unregistered, ok)
    BY <1>3 DEF Reinit
  <2>2. QED
    BY <1>1, <2>1 DEF Unopened
<1>4. CASE UNCHANGED <<registered, clients>>
  BY <1>4 DEF Unopened
<1>5. QED
  BY <1>2, <1>3, <1>4
  DEF Next, Execute, LogCommand, CounterEvent, SqlOpened, SqlClosed, ChannelOpened,
      Exit, Shutdown, Kill, Tick, vars

(* Before a handler is interrupted the session is one of StatsdSession.    *)
(* After that, either core.exit is not registered, and the end will report *)
(* nothing, or it is, with a client, and the end will report; in the       *)
(* meantime each interrupted exit handler may have lowered the gauge.      *)
Ordinary ==
  within = "none" =>
    FlowInv /\ ConnectionGauge /\ Unopened /\ exits = 0 /\ unsent = NoneUnsent

Silenced ==
  within \in {"init", "reinit"} =>
    /\ "core.exit" \notin registered /\ exits = 0
    /\ phase \in {"running", "exited"}
    /\ clients \in Nat \ {0} /\ unsent["sql"] = 0

(* The client whose opening was interrupted: over TCP its +1 was written   *)
(* and sent, or not written; over UDP it was written, and stays in the     *)
(* buffer unless a timeout flushes it, which for the first client none can. *)
InitBegun ==
  /\ within = "init" /\ use_tcp =>
       gauges["connection"] \in {clients - 1, clients} /\ unsent["connection"] = 0
  /\ within = "init" /\ ~use_tcp =>
       /\ gauges["connection"] = clients /\ unsent["connection"] \in {0, 1}
       /\ clients = 1 => /\ unsent["connection"] = 1
                         /\ registered \subseteq {"core.session-reinit"}

CloseBegun ==
  within = "reinit" => gauges["connection"] = clients /\ unsent["connection"] = 0

Reporting ==
  within \in {"sql-opened", "sql-closed", "exit"} =>
    /\ "core.exit" \in registered
    /\ phase \in {"running", "exited"}
    /\ phase = "running" => /\ statsd # NULL
                            /\ gauges["connection"] - clients \in (0 - exits)..0
    /\ phase = "exited" => /\ unsent = NoneUnsent
                           /\ gauges["connection"] - (clients - 1) \in (0 - exits)..0

ReentryInv ==
  ReentryTypeOK /\ Ordinary /\ Silenced /\ InitBegun /\ CloseBegun /\ Reporting

(* A handler is interrupted in a running session that has a client, whose  *)
(* exit is registered.                                                     *)
LEMMA OrdinaryClient ==
  ASSUME FlowInv, ConnectionGauge, Running
  PROVE  /\ gauges["connection"] = clients
         /\ statsd # NULL <=> "core.exit" \in registered
<1>1. clients \in Nat
  BY DEF FlowInv, SessionInv, TypeOK
<1>2. \A n \in Nat : n - 0 = n
  OBVIOUS
<1>3. clients - 0 = clients
  BY <1>1, <1>2, Zenon
<1>4. phase # "exited"
  BY DEF Running
<1>5. gauges["connection"] = clients
  BY <1>3, <1>4, Zenon DEF ConnectionGauge
<1>6. QED
  BY <1>5 DEF FlowInv, SessionInv, EngineHasClient

LEMMA ClientWasOpened ==
  ASSUME FlowInv, statsd # NULL PROVE clients \in Nat \ {0}
<1>1. clients \in Nat /\ StartIsBegan
  BY DEF FlowInv, SessionInv, TypeOK
<1>2. QED
  BY <1>1 DEF StartIsBegan

LEMMA ReentryStep ==
  ReentryInv /\ [ReentryNext]_<<vars, reentry_vars>> => ReentryInv'
<1> SUFFICES ASSUME ReentryInv, [ReentryNext]_<<vars, reentry_vars>> PROVE ReentryInv'
  OBVIOUS
<1> USE DEF module_vars, core_vars, history_vars
<1> DEFINE gauge == gauges["connection"]
           held == unsent["connection"]
           Books == (Ordinary /\ Silenced /\ InitBegun /\ CloseBegun /\ Reporting)'
<1>0. /\ ReentryTypeOK /\ TypeOK /\ ReentryTypeOK' /\ within \in Handlers \cup {"none"}
      /\ gauge \in Int /\ clients \in Nat /\ exits \in Nat /\ gauge' \in Int
      /\ held \in Int
      /\ NoneUnsent["connection"] = 0 /\ NoneUnsent["sql"] = 0
  <2>1. ReentryTypeOK /\ ReentryTypeOK'
    BY ReentryStepType DEF ReentryInv
  <2>2. TypeOK /\ TypeOK' /\ "connection" \in ConnNames /\ "sql" \in ConnNames
    BY <2>1 DEF ReentryTypeOK, ConnNames
  <2>3. exits \in Nat
    BY <2>1, ReentryAssumption DEF ReentryTypeOK
  <2>4. QED
    BY <2>1, <2>2, <2>3 DEF ReentryTypeOK, TypeOK, NoneUnsent
<1>1. SUFFICES Books
  BY <1>0 DEF ReentryInv
<1>2. ASSUME within = "none", Next, UNCHANGED reentry_vars PROVE Books
  <2>1. FlowInv' /\ ConnectionGauge' /\ Unopened'
    BY <1>2, FlowStep, ConnectionStep, UnopenedStep DEF ReentryInv, Ordinary
  <2>2. within' = "none" /\ exits' = 0 /\ unsent' = NoneUnsent
    BY <1>2 DEF reentry_vars, ReentryInv, Ordinary
  <2>3. NoneUnsent' = NoneUnsent
    BY DEF NoneUnsent
  <2>4. QED
    BY <2>1, <2>2, <2>3 DEF Ordinary, Silenced, InitBegun, CloseBegun, Reporting
<1>3. ASSUME NEW sampling, NEW handlers, NEW written \in BOOLEAN,
             InitInterrupted(sampling, handlers, written),
             "core.exit" \notin handlers, gauge = clients,
             clients = 0 => handlers \subseteq {"core.session-reinit"}
      PROVE  Books
  <2>1. /\ within = "none" /\ within' = "init" /\ exits' = exits /\ phase' = "running"
        /\ registered' = handlers \cup {"core.session-reinit"} /\ clients' = clients + 1
        /\ use_tcp' = use_tcp /\ (written \/ use_tcp)
    BY <1>3 DEF InitInterrupted, EndsWithin
  <2>2. exits = 0 /\ held = 0 /\ unsent["sql"] = 0
    BY <1>0, <2>1 DEF ReentryInv, Ordinary
  <2>3. /\ gauge' = gauge + (IF written THEN 1 ELSE 0)
        /\ held' = held + (IF written /\ ~use_tcp THEN 1 ELSE 0)
        /\ unsent'["sql"] = unsent["sql"]
    BY <1>0, <1>3, InitInterruptedMoves
  <2>4. /\ use_tcp' => gauge' \in {clients' - 1, clients'} /\ held' = 0
        /\ ~use_tcp' => gauge' = clients' /\ held' = 1
    BY <1>0, <1>3, <2>1, <2>2, <2>3
  <2>5. /\ clients' \in Nat \ {0}
        /\ clients' = 1 => registered' \subseteq {"core.session-reinit"}
    BY <1>0, <1>3, <2>1
  <2>6. InitBegun'
    BY <2>1, <2>4, <2>5 DEF InitBegun
  <2>7. Silenced'
    BY <1>3, <2>1, <2>2, <2>3, <2>5 DEF Silenced
  <2>8. QED
    BY <2>1, <2>6, <2>7 DEF Ordinary, CloseBegun, Reporting
<1>4. ASSUME NEW written \in BOOLEAN, StartInterrupted(written) PROVE Books
  <2>1. /\ phase = "forked" /\ within = "none"
        /\ InitInterrupted(statsd_sampling, registered, written)
    BY <1>4 DEF StartInterrupted, InitInterrupted, EndsWithin
  <2>2. registered = {} /\ clients = 0 /\ gauge = 0
    BY <2>1 DEF ReentryInv, Ordinary, FlowInv, SessionInv, Fresh, Unused, ConnNames
  <2>3. QED
    BY <1>3, <2>1, <2>2
<1>5. ASSUME NEW written \in BOOLEAN, ReinitInterrupted(written) PROVE Books
  <2>1. /\ Running /\ within = "none"
        /\ InitInterrupted("all", registered \ Unregistered, written)
    BY <1>5 DEF ReinitInterrupted, InitInterrupted, EndsWithin
  <2>2. gauge = clients
    BY <2>1, OrdinaryClient DEF ReentryInv, Ordinary
  <2>3. "core.exit" \notin registered \ Unregistered
    BY DEF Unregistered
  <2>4. clients = 0 => registered \ Unregistered \subseteq {"core.session-reinit"}
    BY <2>1 DEF ReentryInv, Ordinary, Unopened
  <2>5. QED
    BY <1>3, <2>1, <2>2, <2>3, <2>4
<1>6. CASE CloseInterrupted
  <2>1. /\ Running /\ Silent /\ within = "none" /\ within' = "reinit" /\ statsd # NULL
        /\ exits' = exits /\ phase' = phase /\ clients' = clients
        /\ "core.exit" \notin registered' /\ Buffered({})
    BY <1>6 DEF CloseInterrupted, EndsWithin, Unregistered
  <2>2. gauge = clients /\ exits = 0 /\ held = 0 /\ unsent["sql"] = 0
    BY <1>0, <2>1, OrdinaryClient DEF ReentryInv, Ordinary
  <2>3. gauge' = gauge
    BY <2>1, SilentKeeps
  <2>4. held' = 0 /\ unsent'["sql"] = 0
    <3>1. \A name : Moves({}, name) = 0
      BY MovesNone
    <3>2. "connection" \in ConnNames /\ "sql" \in ConnNames
      BY DEF ConnNames
    <3>3. QED
      BY <2>1, <2>2, <3>1, <3>2, Held
  <2>5. clients \in Nat \ {0}
    BY <2>1, ClientWasOpened DEF ReentryInv, Ordinary
  <2>6. QED
    BY <2>1, <2>2, <2>3, <2>4, <2>5
    DEF Ordinary, Silenced, InitBegun, CloseBegun, Reporting, Running
<1>7. ASSUME NEW opens_one \in BOOLEAN, NEW written \in BOOLEAN,
             SqlInterrupted(opens_one, written)
      PROVE  Books
  <2>1. /\ Running /\ statsd # NULL /\ within = "none"
        /\ within' \in {"sql-opened", "sql-closed"} /\ exits' = exits
        /\ UNCHANGED <<phase, clients, registered, statsd>>
    BY <1>7 DEF SqlInterrupted, EndsWithin
  <2>2. gauge = clients /\ "core.exit" \in registered /\ exits = 0
    BY <2>1, OrdinaryClient DEF ReentryInv, Ordinary
  <2>3. gauge' = gauge
    BY <1>0, <1>7, SqlInterruptedMoves
  <2>4. gauge' - clients' \in (0 - exits')..0
    BY <1>0, <2>1, <2>2, <2>3
  <2>5. QED
    BY <2>1, <2>2, <2>4 DEF Ordinary, Silenced, InitBegun, CloseBegun, Reporting, Running
<1>8. ASSUME NEW n \in 0..4, ExitInterrupted(n) PROVE Books
  <2>1. /\ phase = "running" /\ "core.exit" \in registered /\ statsd # NULL
        /\ exits' = exits + 1
        /\ within' = IF within = "none" THEN "exit" ELSE within
        /\ UNCHANGED <<phase, clients, registered, statsd>>
    BY <1>8 DEF ExitInterrupted, Running
  <2>2. gauge' \in {gauge, gauge - 1}
    BY <1>0, <1>8, ExitInterruptedMoves
  <2>3. within \notin {"init", "reinit"}
    BY <2>1 DEF ReentryInv, Silenced
  <2>4. within' \in {"sql-opened", "sql-closed", "exit"}
    BY <1>0, <2>1, <2>3 DEF Handlers
  <2>5. gauge - clients \in (0 - exits)..0
    <3>1. CASE within = "none"
      <4>1. gauge = clients /\ exits = 0
        BY <2>1, <3>1, OrdinaryClient DEF ReentryInv, Ordinary, Running
      <4>2. QED
        BY <1>0, <4>1
    <3>2. CASE within # "none"
      BY <1>0, <2>1, <2>3, <3>2 DEF ReentryInv, Reporting, Handlers
    <3>3. QED
      BY <3>1, <3>2
  <2>6. gauge' - clients' \in (0 - exits')..0
    BY <1>0, <2>1, <2>2, <2>5
  <2>7. QED
    BY <2>1, <2>4, <2>6 DEF Ordinary, Silenced, InitBegun, CloseBegun, Reporting
<1>9. ASSUME NEW event \in TimeoutEvents, TimeoutReported(event) PROVE Books
  <2>1. /\ within # "none" /\ within' = within /\ CounterEvent(event)
        /\ event \in registered /\ unsent' = NoneUnsent
        /\ UNCHANGED <<use_tcp, exits, phase, clients, registered, statsd>>
    BY <1>9 DEF TimeoutReported, CounterEvent
  <2>2. gauge' = gauge
    BY <1>0, <2>1, CounterEventMoves DEF ConnNames
  <2>3. held' = 0 /\ unsent'["sql"] = 0
    BY <1>0, <2>1
  <2>4. event # "core.session-reinit"
    BY DEF TimeoutEvents
  <2>5. Silenced'
    BY <2>1, <2>3 DEF ReentryInv, Silenced
  <2>6. InitBegun' /\ CloseBegun'
    BY <2>1, <2>2, <2>3, <2>4 DEF ReentryInv, InitBegun, CloseBegun
  <2>7. NoneUnsent' = NoneUnsent
    BY DEF NoneUnsent
  <2>8. Reporting'
    BY <2>1, <2>2, <2>7 DEF ReentryInv, Reporting
  <2>9. QED
    BY <2>1, <2>5, <2>6, <2>8 DEF Ordinary
<1>10. CASE SessionEnds
  <2>1. /\ within # "none" /\ phase = "running" /\ phase' = "exited" /\ Exit
        /\ UNCHANGED <<within, exits, use_tcp, clients, registered>>
        /\ unsent' = IF "core.exit" \in registered /\ statsd # NULL
                       THEN NoneUnsent ELSE unsent
    BY <1>10 DEF SessionEnds, Exit, Running
  <2>2. gauge' = IF "core.exit" \in registered /\ statsd # NULL THEN gauge - 1 ELSE gauge
    <3>1. "connection" \in ConnNames \ {"sql"}
      BY DEF ConnNames
    <3>2. QED
      BY <1>0, <2>1, <3>1, ExitStepMoves
  <2>3. CASE within \in {"init", "reinit"}
    <3>1. "core.exit" \notin registered
      BY <2>3 DEF ReentryInv, Silenced
    <3>2. gauge' = gauge /\ unsent' = unsent
      BY <2>1, <2>2, <3>1
    <3>3. QED
      BY <2>1, <2>3, <3>2
      DEF ReentryInv, Ordinary, Silenced, InitBegun, CloseBegun, Reporting
  <2>4. CASE within \in {"sql-opened", "sql-closed", "exit"}
    <3>1. /\ "core.exit" \in registered /\ statsd # NULL
          /\ gauge - clients \in (0 - exits)..0
      BY <2>1, <2>4 DEF ReentryInv, Reporting
    <3>2. gauge' - (clients' - 1) \in (0 - exits')..0
      BY <1>0, <2>1, <2>2, <3>1
    <3>3. unsent' = NoneUnsent /\ NoneUnsent' = NoneUnsent
      BY <2>1, <3>1 DEF NoneUnsent
    <3>4. QED
      BY <2>1, <2>4, <3>1, <3>2, <3>3
      DEF Ordinary, Silenced, InitBegun, CloseBegun, Reporting
  <2>5. QED
    BY <1>0, <2>1, <2>3, <2>4 DEF Handlers
<1>11. CASE UNCHANGED <<vars, reentry_vars>>
  <2>1. UNCHANGED vars /\ UNCHANGED reentry_vars
    BY <1>11
  <2>2. within = "none" => FlowInv' /\ ConnectionGauge' /\ Unopened'
    BY <2>1, FlowStep, ConnectionStep, UnopenedStep DEF ReentryInv, Ordinary
  <2>3. NoneUnsent' = NoneUnsent
    BY DEF NoneUnsent
  <2>4. QED
    BY <2>1, <2>2, <2>3
    DEF ReentryInv, Ordinary, Silenced, InitBegun, CloseBegun, Reporting, vars, reentry_vars
<1>12. QED
  BY <1>2, <1>4, <1>5, <1>6, <1>7, <1>8, <1>9, <1>10, <1>11 DEF ReentryNext

LEMMA ReentryInvariant == ReentrySpec => []ReentryInv
<1>1. Init => FlowInv /\ ConnectionGauge /\ Unopened
  BY FlowInit DEF Init, ConnectionGauge, Unopened, ConnNames
<1>2. ReentryInit => ReentryInv
  BY <1>1, InitType, ReentryAssumption
  DEF ReentryInit, ReentryInv, ReentryTypeOK, Ordinary, Silenced, InitBegun, CloseBegun,
      Reporting, NoneUnsent
<1>3. QED
  BY <1>2, ReentryStep, PTL DEF ReentrySpec

(* However the session ends, the connection gauge is off by what           *)
(* ConnectionOff says for the handler it ended in.                         *)
THEOREM ConnectionOffBounded == ReentrySpec => []ConnectionOff
<1>1. ReentryInv => ConnectionOff
  <2> SUFFICES ASSUME ReentryInv, Reported, clients > 0 PROVE ConnectionOff
    BY DEF ConnectionOff
  <2> DEFINE off == Given("connection") - (clients - 1)
  <2>1. /\ clients \in Nat \ {0} /\ exits \in Nat /\ within \in Handlers \cup {"none"}
        /\ gauges["connection"] \in Int /\ unsent["connection"] \in Int
        /\ NoneUnsent["connection"] = 0
    BY ReentryAssumption DEF ReentryInv, ReentryTypeOK, TypeOK, ConnNames, NoneUnsent
  <2>2. Given("connection") = gauges["connection"] - unsent["connection"]
    BY DEF Given
  <2>3. CASE within = "none"
    <3>1. gauges["connection"] = clients - 1 /\ unsent["connection"] = 0 /\ exits = 0
      BY <2>1, <2>3 DEF ReentryInv, Ordinary, ConnectionGauge, Reported
    <3>2. off \in (0 - exits)..0
      BY <2>1, <2>2, <3>1
    <3>3. QED
      BY <2>3, <3>2 DEF ConnectionOff
  <2>4. CASE within = "reinit"
    <3>1. off = 1
      BY <2>1, <2>2, <2>4 DEF ReentryInv, CloseBegun
    <3>2. QED
      BY <2>4, <3>1 DEF ConnectionOff
  <2>5. CASE within = "init"
    <3>1. off \in {0, 1}
      BY <2>1, <2>2, <2>5 DEF ReentryInv, InitBegun
    <3>2. ~use_tcp /\ clients = 1 => off = 0
      BY <2>1, <2>2, <2>5 DEF ReentryInv, InitBegun
    <3>3. QED
      BY <2>5, <3>1, <3>2 DEF ConnectionOff
  <2>6. CASE within \in {"sql-opened", "sql-closed", "exit"}
    <3>1. /\ unsent["connection"] = 0
          /\ gauges["connection"] - (clients - 1) \in (0 - exits)..0
      BY <2>1, <2>6 DEF ReentryInv, Reporting, Reported
    <3>2. off \in (0 - exits)..0
      BY <2>1, <2>2, <3>1
    <3>3. QED
      BY <2>6, <3>2 DEF ConnectionOff
  <2>7. QED
    BY <2>1, <2>3, <2>4, <2>5, <2>6 DEF Handlers
<1>2. QED
  BY <1>1, ReentryInvariant, PTL
-----------------------------------------------------------------------------
(* The sql gauge, less what an end within the handler leaves in it, is the *)
(* count that is still to be reported; a count that was reported has added *)
(* 2^32, by which it is 0 again as an unsigned int.                        *)
SqlOrdinary ==
  within = "none" =>
    /\ SqlGaugeIsCount
    /\ SqlLoaded
    /\ phase = "exited" /\ "core.exit" \in registered /\ ~sql_missed =>
         gauges["sql"] \in {0, UIntWord}

SqlSilenced ==
  within \in {"init", "reinit"} /\ ~sql_missed => gauges["sql"] = sql_open

Owed(left) ==
  IF phase = "running"
    THEN \/ gauges["sql"] - left = statsd_sql_conn_count
         \/ gauges["sql"] - left = UIntWord /\ statsd_sql_conn_count = 0
    ELSE gauges["sql"] - left \in {0, UIntWord}

SqlReporting ==
  /\ within \in {"sql-opened", "sql-closed", "exit"}
  /\ ~sql_missed
  => \E left \in SqlLeft : Owed(left)

SqlInv == SqlOrdinary /\ SqlSilenced /\ SqlReporting

LEMMA SqlReentryStep ==
  ASSUME SqlFits
  PROVE  ReentryInv /\ SqlInv /\ [ReentryNext]_<<vars, reentry_vars>> => SqlInv'
<1> SUFFICES ASSUME ReentryInv, SqlInv, [ReentryNext]_<<vars, reentry_vars>>
             PROVE  SqlInv'
  OBVIOUS
<1> USE DEF module_vars, core_vars, history_vars
<1> DEFINE gauge == gauges["sql"]
           count == statsd_sql_conn_count
<1>0. /\ ReentryTypeOK /\ TypeOK /\ within \in Handlers \cup {"none"}
      /\ gauge \in Int /\ gauge' \in Int /\ count \in Nat /\ sql_open \in Nat
      /\ UIntWord \in Nat /\ exits \in Nat
  <2>1. ReentryTypeOK /\ ReentryTypeOK'
    BY ReentryStepType DEF ReentryInv
  <2>2. TypeOK /\ TypeOK' /\ "sql" \in ConnNames
    BY <2>1 DEF ReentryTypeOK, ConnNames
  <2>3. QED
    BY <2>1, <2>2, SessionAssumption, ReentryAssumption DEF ReentryTypeOK, TypeOK
<1>1. ASSUME within = "none", Next, UNCHANGED reentry_vars PROVE SqlInv'
  <2>1. FlowInv /\ SqlGaugeIsCount /\ SqlLoaded /\ within' = "none"
    BY <1>1 DEF ReentryInv, Ordinary, SqlInv, SqlOrdinary, reentry_vars
  <2>2. SqlGaugeIsCount' /\ SqlLoaded'
    BY <1>1, <2>1, SqlStep, SqlLoadedStep
  <2>3. ASSUME (phase = "exited" /\ "core.exit" \in registered /\ ~sql_missed)'
        PROVE  gauge' \in {0, UIntWord}
    <3>1. Exit
      BY <1>1, <2>3
      DEF Next, Start, Reinit, Execute, LogCommand, CounterEvent, SqlOpened, SqlClosed,
          ChannelOpened, Shutdown, Kill, Tick, Idle, Alive, Running
    <3>2. Running /\ "core.exit" \in registered /\ ~sql_missed
      BY <2>3, <3>1 DEF Exit
    <3>3. statsd # NULL
      BY <2>1, <3>2 DEF FlowInv, SessionInv, EngineHasClient
    <3>4. gauge = count
      BY <2>1, <3>2 DEF SqlGaugeIsCount
    <3>5. gauge' = IF count > 0 THEN gauge + UIntWord - count ELSE gauge
      BY <1>0, <3>1, <3>2, <3>3, ExitMovesSql
    <3>6. QED
      BY <1>0, <3>4, <3>5
  <2>4. QED
    BY <2>1, <2>2, <2>3 DEF SqlInv, SqlOrdinary, SqlSilenced, SqlReporting
<1>2. ASSUME NEW sampling, NEW handlers, NEW written \in BOOLEAN,
             InitInterrupted(sampling, handlers, written),
             ~sql_missed => gauge = sql_open
      PROVE  SqlInv'
  <2>1. within' = "init" /\ UNCHANGED <<sql_open, sql_missed>>
    BY <1>2 DEF InitInterrupted, EndsWithin
  <2>2. gauge' = gauge
    BY <1>0, <1>2, InitInterruptedMoves
  <2>3. QED
    BY <1>2, <2>1, <2>2 DEF SqlInv, SqlOrdinary, SqlSilenced, SqlReporting
<1>3. ASSUME NEW written \in BOOLEAN, StartInterrupted(written) PROVE SqlInv'
  <2>1. /\ phase = "forked" /\ within = "none"
        /\ InitInterrupted(statsd_sampling, registered, written)
    BY <1>3 DEF StartInterrupted, InitInterrupted, EndsWithin
  <2>2. gauge = 0 /\ sql_open = 0
    BY <2>1 DEF ReentryInv, Ordinary, FlowInv, Unused, ConnNames
  <2>3. QED
    BY <1>2, <2>1, <2>2
<1>4. ASSUME NEW written \in BOOLEAN, ReinitInterrupted(written) PROVE SqlInv'
  <2>1. /\ Running /\ within = "none"
        /\ InitInterrupted("all", registered \ Unregistered, written)
    BY <1>4 DEF ReinitInterrupted, InitInterrupted, EndsWithin
  <2>2. ~sql_missed => gauge = sql_open
    BY <2>1 DEF SqlInv, SqlOrdinary, SqlGaugeIsCount
  <2>3. QED
    BY <1>2, <2>1, <2>2
<1>5. CASE CloseInterrupted
  <2>1. /\ Running /\ Silent /\ within = "none" /\ within' = "reinit"
        /\ UNCHANGED <<sql_open, sql_missed>>
    BY <1>5 DEF CloseInterrupted, EndsWithin
  <2>2. ~sql_missed => gauge = sql_open
    BY <2>1 DEF SqlInv, SqlOrdinary, SqlGaugeIsCount
  <2>3. gauge' = gauge
    BY <2>1, SilentKeeps
  <2>4. QED
    BY <2>1, <2>2, <2>3 DEF SqlInv, SqlOrdinary, SqlSilenced, SqlReporting
<1>6. ASSUME NEW opens_one \in BOOLEAN, NEW written \in BOOLEAN,
             SqlInterrupted(opens_one, written)
      PROVE  SqlInv'
  <2> DEFINE left == IF ~written THEN 0 ELSE IF opens_one THEN 1 ELSE -1
  <2>1. /\ Running /\ within = "none" /\ phase' = "running"
        /\ within' = IF opens_one THEN "sql-opened" ELSE "sql-closed"
        /\ UNCHANGED <<statsd_sql_conn_count, sql_missed>>
    BY <1>6 DEF SqlInterrupted, EndsWithin, Running
  <2>2. left \in SqlLeft'
    BY <2>1 DEF SqlLeft
  <2>3. gauge' = gauge + left
    BY <1>0, <1>6, SqlInterruptedMoves
  <2>4. ASSUME ~sql_missed PROVE Owed(left)'
    <3>1. gauge = count
      BY <2>1, <2>4 DEF SqlInv, SqlOrdinary, SqlGaugeIsCount
    <3>2. gauge' - left = count'
      BY <1>0, <2>1, <2>3, <3>1
    <3> HIDE DEF left
    <3>3. QED
      BY <2>1, <3>2 DEF Owed
  <2> HIDE DEF left
  <2>5. QED
    BY <2>1, <2>2, <2>4 DEF SqlInv, SqlOrdinary, SqlSilenced, SqlReporting
<1>7. ASSUME NEW n \in 0..4, ExitInterrupted(n) PROVE SqlInv'
  <2> DEFINE closing == n = Len(ExitSequence)
  <2>1. /\ phase = "running" /\ phase' = "running" /\ "core.exit" \in registered
        /\ sql_missed' = sql_missed
        /\ within' = IF within = "none" THEN "exit" ELSE within
    BY <1>7 DEF ExitInterrupted, Running
  <2>2. within \notin {"init", "reinit"}
    BY <2>1 DEF ReentryInv, Silenced
  <2>3. within' \in {"sql-opened", "sql-closed", "exit"} /\ SqlLeft' = SqlLeft
    BY <1>0, <2>1, <2>2 DEF Handlers, SqlLeft
  <2>4. SUFFICES ASSUME ~sql_missed PROVE \E left \in SqlLeft : Owed(left)'
    BY <1>0, <2>1, <2>3 DEF SqlInv, SqlOrdinary, SqlSilenced, SqlReporting
  <2>5. PICK left \in SqlLeft : Owed(left)
    <3>1. CASE within = "none"
      <4>1. gauge = count /\ 0 \in SqlLeft
        BY <2>1, <2>4, <3>1 DEF SqlInv, SqlOrdinary, SqlGaugeIsCount, Running, SqlLeft
      <4>2. gauge - 0 = count
        BY <1>0, <4>1
      <4>3. QED
        BY <2>1, <4>1, <4>2 DEF Owed
    <3>2. CASE within # "none"
      BY <1>0, <2>2, <2>4, <3>2 DEF SqlInv, SqlReporting, Handlers
    <3>3. QED
      BY <3>1, <3>2
  <2>6. left \in Int
    BY <1>0, <2>5 DEF SqlLeft
  <2>7. gauge' = IF n = Len(ExitSequence) /\ count > 0
                   THEN gauge + UIntWord - count ELSE gauge
    BY <1>0, <1>7, ExitInterruptedMoves
  <2>8. count' = IF closing THEN 0 ELSE count
    BY <1>7 DEF ExitInterrupted, CountAtClose
  <2>9. \/ gauge - left = count
        \/ gauge - left = UIntWord /\ count = 0
    BY <2>1, <2>5 DEF Owed
  <2> HIDE DEF closing
  <2>10. \/ gauge' - left = count'
         \/ gauge' - left = UIntWord /\ count' = 0
    <3>1. gauge' = IF closing /\ count > 0 THEN gauge + UIntWord - count ELSE gauge
      BY <2>7 DEF closing
    <3>2. CASE ~closing
      BY <2>8, <2>9, <3>1, <3>2
    <3>3. CASE closing /\ count > 0
      BY <1>0, <2>6, <2>8, <2>9, <3>1, <3>3
    <3>4. CASE closing /\ count = 0
      BY <1>0, <2>8, <2>9, <3>1, <3>4
    <3>5. QED
      BY <1>0, <3>2, <3>3, <3>4
  <2>11. Owed(left)'
    BY <2>1, <2>10 DEF Owed
  <2>12. QED
    BY <2>5, <2>11
<1>8. ASSUME NEW event \in TimeoutEvents, TimeoutReported(event) PROVE SqlInv'
  <2>1. /\ within # "none" /\ within' = within /\ CounterEvent(event)
        /\ UNCHANGED <<phase, statsd_sql_conn_count, sql_open, sql_missed>>
    BY <1>8 DEF TimeoutReported, CounterEvent
  <2>2. gauge' = gauge
    BY <1>0, <2>1, CounterEventMoves DEF ConnNames
  <2>3. SqlLeft' = SqlLeft /\ \A left : Owed(left)' <=> Owed(left)
    BY <2>1, <2>2 DEF SqlLeft, Owed
  <2>4. QED
    BY <2>1, <2>2, <2>3 DEF SqlInv, SqlOrdinary, SqlSilenced, SqlReporting
<1>9. CASE SessionEnds
  <2>1. /\ within # "none" /\ phase = "running" /\ phase' = "exited" /\ Exit
        /\ UNCHANGED <<within, sql_open, sql_missed>>
    BY <1>9 DEF SessionEnds, Exit, Running
  <2>2. gauge' = IF "core.exit" \in registered /\ statsd # NULL /\ count > 0
                   THEN gauge + UIntWord - count ELSE gauge
    BY <1>0, <2>1, ExitMovesSql
  <2>3. CASE within \in {"init", "reinit"}
    <3>1. "core.exit" \notin registered
      BY <2>3 DEF ReentryInv, Silenced
    <3>2. QED
      BY <2>1, <2>2, <2>3, <3>1 DEF SqlInv, SqlOrdinary, SqlSilenced, SqlReporting
  <2>4. CASE within \in {"sql-opened", "sql-closed", "exit"}
    <3>1. SqlLeft' = SqlLeft
      BY <2>1 DEF SqlLeft
    <3>2. SUFFICES ASSUME ~sql_missed PROVE \E left \in SqlLeft : Owed(left)'
      BY <2>1, <2>4, <3>1 DEF SqlInv, SqlOrdinary, SqlSilenced, SqlReporting
    <3>3. PICK left \in SqlLeft : Owed(left)
      BY <2>4, <3>2 DEF SqlInv, SqlReporting
    <3>4. left \in Int
      BY <2>4, <3>3 DEF SqlLeft
    <3>5. "core.exit" \in registered /\ statsd # NULL
      BY <2>1, <2>4 DEF ReentryInv, Reporting
    <3>6. \/ gauge - left = count
          \/ gauge - left = UIntWord /\ count = 0
      BY <2>1, <3>3 DEF Owed
    <3>7. gauge' - left \in {0, UIntWord}
      <4>1. CASE count > 0
        BY <1>0, <2>2, <3>4, <3>5, <3>6, <4>1
      <4>2. CASE count = 0
        BY <1>0, <2>2, <3>4, <3>6, <4>2
      <4>3. QED
        BY <1>0, <4>1, <4>2
    <3>8. Owed(left)'
      BY <2>1, <3>7 DEF Owed
    <3>9. QED
      BY <3>3, <3>8
  <2>5. QED
    BY <1>0, <2>1, <2>3, <2>4 DEF Handlers
<1>10. CASE UNCHANGED <<vars, reentry_vars>>
  BY <1>10 DEF vars, reentry_vars, SqlInv, SqlOrdinary, SqlSilenced, SqlReporting,
              SqlGaugeIsCount, SqlLoaded, Owed, SqlLeft, Running
<1>11. QED
  BY <1>1, <1>3, <1>4, <1>5, <1>6, <1>7, <1>8, <1>9, <1>10 DEF ReentryNext

(* What an end within a handler may leave in the sql gauge: the connection *)
(* that was being opened or closed, or what was never to be reported.      *)
THEOREM SqlOffBounded ==
  ASSUME SqlFits PROVE ReentrySpec => []SqlOff
<1>1. ReentryInit => SqlInv
  BY DEF ReentryInit, Init, SqlInv, SqlOrdinary, SqlSilenced, SqlReporting,
         SqlGaugeIsCount, SqlLoaded, Running
<1>2. ReentryInv /\ SqlInv => SqlOff
  <2> SUFFICES ASSUME ReentryInv, SqlInv, Reported, ~sql_missed
               PROVE  \E left \in SqlLeft : (Given("sql") - left) % UIntWord = 0
    BY DEF SqlOff
  <2>0. Given("sql") = gauges["sql"]
    <3>1. unsent["sql"] = 0
      BY DEF ReentryInv, ReentryTypeOK, Handlers, Ordinary, Silenced, Reporting, Reported,
             NoneUnsent, ConnNames
    <3>2. gauges["sql"] \in Int /\ \A i \in Int : i - 0 = i
      BY DEF ReentryInv, ReentryTypeOK, TypeOK, ConnNames
    <3>3. gauges["sql"] - 0 = gauges["sql"]
      BY <3>2, Zenon
    <3>4. QED
      BY <3>1, <3>3, Zenon DEF Given
  <2>1. /\ within \in Handlers \cup {"none"} /\ gauges["sql"] \in Int
        /\ UIntWord \in Nat \ {0} /\ sql_open \in Nat
    BY SessionAssumption DEF ReentryInv, ReentryTypeOK, TypeOK, ConnNames
  <2>2. \A w \in Nat \ {0} : 0 % w = 0 /\ w % w = 0
    OBVIOUS
  <2>3. PICK left \in SqlLeft : gauges["sql"] - left \in {0, UIntWord}
    <3>1. CASE within = "none"
      <4>1. gauges["sql"] \in {0, UIntWord} /\ 0 \in SqlLeft
        BY <3>1 DEF SqlInv, SqlOrdinary, Reported, SqlLeft
      <4>2. QED
        BY <2>1, <4>1
    <3>2. CASE within \in {"init", "reinit"}
      <4>1. gauges["sql"] = sql_open /\ sql_open \in SqlLeft
        BY <3>2 DEF SqlInv, SqlSilenced, SqlLeft
      <4>2. QED
        BY <2>1, <4>1
    <3>3. CASE within \in {"sql-opened", "sql-closed", "exit"}
      BY <3>3 DEF SqlInv, SqlReporting, Owed, Reported
    <3>4. QED
      BY <2>1, <3>1, <3>2, <3>3 DEF Handlers
  <2>4. (gauges["sql"] - left) % UIntWord = 0
    BY <2>1, <2>2, <2>3
  <2>5. QED
    BY <2>0, <2>3, <2>4, Zenon
<1>3. ReentryInv /\ SqlInv /\ [ReentryNext]_<<vars, reentry_vars>> => SqlInv'
  BY SqlReentryStep
<1>4. QED
  BY <1>1, <1>2, <1>3, ReentryInvariant, PTL DEF ReentrySpec
=============================================================================
