---------------------------- MODULE MCAmpleCode ----------------------------
(* The patches of MCCodeStore in a memory that holds them all.             *)
EXTENDS MCCodeStore, AmpleCode
=============================================================================
