------------------------ MODULE MCServiceController ------------------------
(* Constants for the runs of ServiceController.                            *)
EXTENDS ServiceController, TLC

FuelPods   == [edit |-> 2, pod |-> 2, fault |-> 0, crash |-> 0, gap |-> 1, any |-> 5]
FuelFaults == [edit |-> 2, pod |-> 1, fault |-> 1, crash |-> 1, gap |-> 0, any |-> 3]
FuelLive   == [edit |-> 3, pod |-> 0, fault |-> 1, crash |-> 1, gap |-> 0, any |-> 4]
Symmetry   == Permutations(Pods)
=============================================================================
