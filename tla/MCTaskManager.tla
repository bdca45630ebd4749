---------------------------- MODULE MCTaskManager ----------------------------
(* Model checking of TaskManager; its constants are sets of model values.  *)
EXTENDS TaskManager
=============================================================================
