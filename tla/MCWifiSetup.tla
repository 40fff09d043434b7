---------------------------- MODULE MCWifiSetup ----------------------------
(***************************************************************************)
(* An instance of WifiSetup for TLC: surroundings without a network, with  *)
(* names of all the lengths that matter, and with thirteen networks.       *)
(***************************************************************************)
EXTENDS WifiSetup

MCSurroundings == {<<>>, <<13, 10>>, [i \in 1 .. 13 |-> IF i \in {1, 13} THEN 13 ELSE 5]}

MCTexts ==
  {<<kind, 1>> : kind \in {"CURRENT", "NEW", "KEY", "STAMP"}}
    \cup {"LATITUDE", "LONGITUDE"} \X {1, 2}
=============================================================================
