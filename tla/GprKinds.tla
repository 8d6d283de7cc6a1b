------------------------------ MODULE GprKinds ------------------------------
(***************************************************************************)
(* The gpr types of the patch manager (enum in mixer/include/dsp.h).       *)
(***************************************************************************)
InUse == {"IO", "STATIC", "DYNAMIC", "CONTROL", "CONSTANT"}

GprTypes == InUse \cup {"NULL"}

\* The types construct_routing() and dsp_load() release from the routing patch.
Temporary == {"IO", "DYNAMIC"}
=============================================================================
