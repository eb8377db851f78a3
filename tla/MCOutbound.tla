----------------------------- MODULE MCOutbound -----------------------------
(***************************************************************************)
(* Small instances of Outbound for TLC: one port of any mode, including    *)
(* its removal, its return and a rejected change of mode, beside another   *)
(* log_relay port.                                                         *)
(***************************************************************************)
EXTENDS Outbound

AllConfigs == [Ports -> Modes \cup {"off"}]

LogConfigs == LET first == CHOOSE p \in Ports : TRUE
              IN  {c \in AllConfigs : \A p \in Ports \ {first} : c[p] = "log"}
=============================================================================
