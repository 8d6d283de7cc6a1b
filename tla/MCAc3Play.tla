----------------------------- MODULE MCAc3Play -----------------------------
(* Ac3Play for TLC: frames that divide the probe, frames that do not, and  *)
(* frames of no bytes.                                                     *)
EXTENDS Ac3Play

MCFrameSizes == {0, 2, 4, 5}
=============================================================================
