----------------------------- MODULE MCSession -----------------------------
(***************************************************************************)
(* Instances of StatsdSession for TLC: two virtual hosts, each with one of *)
(* a few configurations that differ in one thing from the first.           *)
(***************************************************************************)
EXTENDS StatsdSession, TLC

CONSTANTS s1, s2, d1, d2

On == [engine |-> TRUE, dest |-> d1, sampling |-> "all", exclude |-> {}]

Off == [On EXCEPT !.engine = FALSE]

Incomplete == [On EXCEPT !.dest = NONE]   \* no StatsdServer

Elsewhere == [On EXCEPT !.dest = d2]

Sampled == [On EXCEPT !.sampling = "some"]

NoLogins == [On EXCEPT !.exclude = {"PASS", "AUTH"}]

MCConfigs ==
  [Servers -> {On, Off, Elsewhere, [Sampled EXCEPT !.exclude = {"PASS", "AUTH"}]}]

SampledConfigs == [Servers -> {Sampled}]

PlainConfigs == [Servers -> {On, Elsewhere}]
=============================================================================
