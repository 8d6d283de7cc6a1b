---------------------------- MODULE MCCodeStore ----------------------------
(* Instances of the instruction memory for TLC: two or three patches, one  *)
(* of them two words long.                                                 *)
EXTENDS CodeStore, TLC

CONSTANTS a, b, c

TwoSizes == a :> 1 @@ b :> 2
ThreeSizes == TwoSizes @@ c :> 1
=============================================================================
