-------------------------- MODULE FinalizerProtocol --------------------------
(***************************************************************************)
(* What the users of a Service see of the Service reconciler               *)
(* (pkg/controller/service_controller.go): its finalizer.  The reconciler  *)
(* guards only a Service that is to be exposed, lets go only of one that   *)
(* is not, and a guarded Service does not vanish before it has let go.     *)
(* There are no caches here, no queue and no process that could fail.      *)
(***************************************************************************)
EXTENDS Naturals

VARIABLES
    uid,      \* the UID of the Service, 0 if there is none
    wanted,   \* it is to be exposed: its type, its annotation, not deleted
    guarded,  \* it carries the finalizer
    leaving   \* it has a deletion timestamp

vars == <<uid, wanted, guarded, leaving>>

Absent == uid = 0 /\ ~wanted /\ ~guarded /\ ~leaving

Init == Absent

(* The reconciler.                                                         *)
Guard ==
    /\ wanted /\ ~guarded
    /\ guarded'
    /\ UNCHANGED <<uid, wanted, leaving>>

LetGo ==
    /\ guarded /\ ~wanted
    /\ \/ ~guarded' /\ UNCHANGED <<uid, wanted, leaving>>
       \/ leaving /\ Absent'

(* The users.                                                              *)
Create ==
    /\ uid = 0
    /\ uid' \in Nat \ {0} /\ wanted' \in BOOLEAN /\ ~guarded' /\ ~leaving'

Edit ==
    /\ uid # 0 /\ ~leaving
    /\ wanted' \in BOOLEAN
    /\ UNCHANGED <<uid, guarded, leaving>>

Delete ==
    /\ uid # 0 /\ ~leaving
    /\ leaving' /\ ~wanted'
    /\ UNCHANGED <<uid, guarded>>

(* The API server removes a Service that nothing holds.                    *)
Vanish == ~guarded /\ Absent'

Next == Guard \/ LetGo \/ Create \/ Edit \/ Delete \/ Vanish

Spec == Init /\ [][Next]_vars

=============================================================================
