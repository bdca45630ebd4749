----------------------- MODULE MCFrpServerController -----------------------
(* Constants for the runs of FrpServerController.                          *)
EXTENDS FrpServerReport

FuelFaults ==
    [edit |-> 3, remote |-> 2, get |-> 1, fault |-> 1, text |-> 1, crash |-> 1, any |-> 4]
FuelGet ==
    [edit |-> 1, remote |-> 0, get |-> 1, fault |-> 0, text |-> 0, crash |-> 0, any |-> 2]
=============================================================================
