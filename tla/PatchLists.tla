----------------------------- MODULE PatchLists -----------------------------
(***************************************************************************)
(* The patches that mgr->ipatch_list and mgr->opatch_list are lists of.    *)
(***************************************************************************)
EXTENDS Sequences, SequencesExt

CONSTANT Patches    \* the patches the files hold
=============================================================================
