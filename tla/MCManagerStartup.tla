-------------------------- MODULE MCManagerStartup --------------------------
(***************************************************************************)
(* Model checking of ManagerStartup: one option of each kind, under every  *)
(* command line and every configuration file.                              *)
(***************************************************************************)
EXTENDS ManagerStartup
=============================================================================
