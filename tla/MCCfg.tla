------------------------------- MODULE MCCfg -------------------------------
(* Cfg over every small function. *)
EXTENDS Cfg
=============================================================================
