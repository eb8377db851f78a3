-------------------------------- MODULE MCApp -------------------------------
(***************************************************************************)
(* Small instances of App for TLC: two configurations that differ in what  *)
(* every endpoint serves, in which endpoints there are and in the grace,   *)
(* so that a reload can raise or lower it.                                 *)
(***************************************************************************)
EXTENDS App

CONSTANTS s1, s2

TwoConfigs ==
    {[in |-> [k \in InKeys |-> s1], out |-> [k \in OutKeys |-> s1], grace |-> 1],
     [in |-> [k \in InKeys |-> IF k = CHOOSE x \in InKeys : TRUE THEN s2 ELSE Off],
      out |-> [k \in OutKeys |-> s2], grace |-> 2]}
=============================================================================
