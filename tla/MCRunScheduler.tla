--------------------------- MODULE MCRunScheduler ---------------------------
(* Small instances of RunScheduler: both schedulers, in every configuration. *)
EXTENDS RunScheduler

AllConfigs == Config
=============================================================================
