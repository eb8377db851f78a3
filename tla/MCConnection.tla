---------------------------- MODULE MCConnection ----------------------------
(***************************************************************************)
(* Instances of Connection for TLC.                                        *)
(***************************************************************************)
EXTENDS Connection

(* The handler that waits for a response with no timer of its own, in a    *)
(* read that a closed client does not end.                                 *)
ProxyKinds == {"forward"}
=============================================================================
