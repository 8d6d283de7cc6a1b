----------------------------- MODULE MCRouting -----------------------------
(* The instance of the route commands for TLC is Routing.cfg.              *)
EXTENDS Routing
=============================================================================
