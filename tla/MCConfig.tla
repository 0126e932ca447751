------------------------------ MODULE MCConfig ------------------------------
(***************************************************************************)
(* The instance of StatsdConfig for TLC: all well-formed addresses of two  *)
(* names and two IPv6 addresses, with names around the metrics, and lines   *)
(* that no document describes.                                             *)
(***************************************************************************)
EXTENDS StatsdConfig, TLC

MCHosts == {<<"name">>, <<"tcp">>, <<":", ":", "1">>, <<"fe80", ":", ":">>}

MCatoi == [w \in {"1", "53", "70000"} |-> IF w = "1" THEN 1
                                          ELSE IF w = "53" THEN 53 ELSE 70000]

Malformed ==
  {<<>>, <<":", ":", "1">>, <<"[", ":", ":", "1">>, <<"[", "]", ":", "53">>,
   <<"name", ":">>, <<"name", ":", "word">>, <<"name", ":", "70000">>,
   <<"tcp", ":", "//">>, <<"udp", ":", "//", "tcp", ":", "//", "name">>}

MCLines ==
  {<<>>, <<<<"name">>, <<"prod">>, <<>>, <<>>>>}
    \cup {<<t>> : t \in Malformed \cup {Written(a) : a \in Addresses}}
    \cup {<<<<"name">>, p, q>> : p \in {<<>>, <<"prod">>}, q \in {<<>>, <<"ftp01">>}}

ServerSymmetry == Permutations(Servers)
=============================================================================
