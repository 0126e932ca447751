------------------------------ MODULE MCMetric ------------------------------
(***************************************************************************)
(* Instances of StatsdMetric for TLC: a plain name, and names that contain *)
(* characters of the statsd format; clients with and without names around  *)
(* the metrics, one with a colon in its prefix, and samplings that have no *)
(* two digits, lie between two rates or round to nothing.                  *)
(***************************************************************************)
EXTENDS StatsdMetric

MCNames == {<<"a">>, <<"a", ":", "b">>, <<"a", "|", "@">>}

Plain == [sampling |-> 1000, prefix |-> <<>>, suffix |-> <<>>]

MCClients ==
  {Plain, [Plain EXCEPT !.sampling = 4], [Plain EXCEPT !.prefix = <<"p", ":">>]}
    \cup [sampling : {10, 15, 255, 999}, prefix : {<<"p", ".">>}, suffix : {<<".", "s">>}]

UpAndDown == {-2, 1}
SetValues == {-1, 0, 3}
=============================================================================
