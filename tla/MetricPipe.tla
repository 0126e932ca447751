----------------------------- MODULE MetricPipe -----------------------------
(***************************************************************************)
(* What a statsd client promises to the code that hands it metrics: a      *)
(* lossy pipe.  Metrics are numbered 1, 2, ... in the order they are       *)
(* accepted.  The statsd server may never see some of them.  As long as    *)
(* the pipe is orderly, the server sees no metric twice and sees them in   *)
(* the order in which they were accepted.  The pipe may stop being orderly *)
(* at any time; it still sends only metrics it has accepted, in batches    *)
(* each of which is in order.                                              *)
(***************************************************************************)
EXTENDS Integers, Sequences

VARIABLES
  accepted,   \* how many metrics the client has taken
  delivered,  \* the numbers of those handed to the network, in sending order
  orderly     \* FALSE once a metric may be sent again, or out of order

vars == <<accepted, delivered, orderly>>

Increasing(s) == \A i, j \in DOMAIN s : i < j => s[i] < s[j]

Init == accepted = 0 /\ delivered = <<>> /\ orderly = TRUE

(* At most one metric is accepted by a step. *)
Accept == accepted' \in {accepted, accepted + 1}

(* A send extends what was delivered, with a batch of metrics accepted     *)
(* earlier.                                                                *)
Deliver ==
  /\ Len(delivered') >= Len(delivered)
  /\ \A i \in DOMAIN delivered : delivered'[i] = delivered[i]
  /\ \A i \in DOMAIN delivered' : delivered'[i] \in 1..accepted
  /\ \A i, j \in DOMAIN delivered' :
       Len(delivered) < i /\ i < j => delivered'[i] < delivered'[j]
  /\ orderly => Increasing(delivered')

Disorder == orderly' \in {orderly, FALSE}

Next == Accept /\ Deliver /\ Disorder

Spec == Init /\ [][Next]_vars
=============================================================================
