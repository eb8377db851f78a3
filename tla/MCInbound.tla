------------------------------ MODULE MCInbound -----------------------------
(***************************************************************************)
(* Small instances of Inbound for TLC: two addresses that are absent, of   *)
(* either HTTP mode or of one of two tcp_to_vsock targets.                 *)
(***************************************************************************)
EXTENDS Inbound, TLC

AllConfigs == [Addrs -> HTTPModes \cup Targets \cup {"off"}]

AddrSymmetry == Permutations(Addrs) \cup Permutations(Targets)
=============================================================================
