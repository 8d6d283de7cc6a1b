-------------------------- MODULE MCMixerSettings --------------------------
(* MixerSettings for TLC: emu-config and the GUI with one option or click  *)
(* each.                                                                   *)
EXTENDS MixerSettings

MCAmounts == {{0, 7}}
MCVoiceBuses == {{0, 3}}
OneEach == [p \in Procs |-> 1]
=============================================================================
