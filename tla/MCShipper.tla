----------------------------- MODULE MCShipper -----------------------------
(***************************************************************************)
(* Small instances of Shipper for TLC.                                     *)
(***************************************************************************)
EXTENDS Shipper

(* Frames of which several fit in the buffer, one fits, and none.          *)
FrameSizes == {1, MaxBytes - 1, MaxBytes + 1}
=============================================================================
