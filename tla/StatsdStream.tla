---------------------------- MODULE StatsdStream ----------------------------
(***************************************************************************)
(* The statsd client of StatsdClient over TCP, together with the stream    *)
(* that leaves it and the statsd server that reads lines from that stream. *)
(* send_metrics() takes any result of sendto() that is not negative for a  *)
(* success ("Should we watch for short writes?"), so the server may get a  *)
(* part of a buffer only, and what is sent next joins that part.           *)
(*                                                                         *)
(* A buffer holds the text of one metric, its newline, and, if the metric  *)
(* was longer than STATSD_MAX_METRIC_SIZE - 2, bytes behind the newline,   *)
(* as metrics_buflen then counts more than the text.                       *)
(***************************************************************************)
EXTENDS StatsdClient

CONSTANT ShortWrites   \* TRUE if the network may take part of a buffer

ASSUME StreamAssumption == ShortWrites \in BOOLEAN

VARIABLES
  begun,     \* TRUE if the server has bytes of a line that is not complete
  read,      \* the metrics it read as a line of their own
  spoiled    \* the metrics that were sent in part, or had bytes behind the newline

stream_vars == <<begun, read, spoiled>>
-----------------------------------------------------------------------------
StreamInit == Init /\ begun = FALSE /\ read = {} /\ spoiled = {}

(* The server gets the first n bytes of buf, which is of one metric; if    *)
(* these include the newline a line ends there.                            *)
Received(buf, n) ==
  LET id == buf.ids[1]
  IN  /\ read' = IF n >= buf.text /\ ~begun THEN read \cup {id} ELSE read
      /\ spoiled' = IF n < buf.len \/ buf.len > buf.text THEN spoiled \cup {id} ELSE spoiled
      /\ begun' = (n # buf.text /\ statsd'.fd = "open")

(* A connection that is closed takes an incomplete line with it.           *)
NothingReceived ==
  /\ begun' = (begun /\ statsd'.fd = "open")
  /\ UNCHANGED <<read, spoiled>>

(* sendto() takes all of the buffer, or a part if the writes may be short. *)
Taken(buf) == IF ShortWrites THEN 1..buf.len ELSE {buf.len}

StreamNext ==
  /\ Next
  /\ IF delivered' # delivered
       THEN \E n \in Taken(Top.buf) : Received(Top.buf, n)
       ELSE NothingReceived

StreamSpec == StreamInit /\ [][StreamNext]_<<vars, stream_vars>>
-----------------------------------------------------------------------------
StreamTypeOK ==
  /\ TypeOK
  /\ begun \in BOOLEAN
  /\ read \subseteq Ids /\ spoiled \subseteq Ids

(* "We MUST add a newline for TCP-sent metrics; there are no packet        *)
(* boundaries": the newline lets the server find its way again.  A send    *)
(* that was cut, or had bytes behind its newline, costs no metric but its  *)
(* own and the one sent next, however calls nest and whatever fails.       *)
OnlyNeighboursLost ==
  \A i \in DOMAIN delivered :
    \/ delivered[i] \in read \cup spoiled
    \/ i > 1 /\ delivered[i - 1] \in spoiled

=============================================================================
