-------------------------- MODULE MCBackgroundTasks --------------------------
(* A small instance of BackgroundTasks: the constants are in the .cfg.        *)
EXTENDS BackgroundTasks
=============================================================================
