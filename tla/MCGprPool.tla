----------------------------- MODULE MCGprPool -----------------------------
(* Instances of the gpr allocator for TLC.                                 *)
EXTENDS GprPool

NoneWrapped == {}
LastWrapped == {NumGprs - 1}

=============================================================================
