---------------------------- MODULE HealthReport ----------------------------
(***************************************************************************)
(* What the users of an FrpServer see of its reconciler                    *)
(* (pkg/controller/frpserver_controller.go): the phase.  A verdict is      *)
(* reported only if there have been grounds for it since the object was    *)
(* last written: Healthy if the frp server let this very specification in  *)
(* at some moment, Unhealthy if it turned it away or a login failed on the *)
(* way.  There are no caches here, no queue and no process that could die. *)
(***************************************************************************)
VARIABLES
    object,   \* {} or {<<incarnation, specification>>}
    phase,    \* the phase in its status
    open,     \* the frp server lets the object's specification in
    grounds   \* the verdicts there have been grounds for

vars == <<object, phase, open, grounds>>

Finding(o) == {IF o THEN "Healthy" ELSE "Unhealthy"}

Init == object = {} /\ phase = "none" /\ open = FALSE /\ grounds = Finding(open)

(* The reconciler.                                                         *)
Report ==
    /\ phase' \in grounds
    /\ grounds' = Finding(open)
    /\ UNCHANGED <<object, open>>

Defer ==
    /\ phase = "Unknown" /\ phase' = "Pending"
    /\ grounds' = Finding(open)
    /\ UNCHANGED <<object, open>>

(* The users: a new object, or an edit, which keeps the phase.  The webhook*)
(* has looked at the specification, which may be shut out again by now.    *)
Submit ==
    /\ object' # {} /\ open' \in BOOLEAN /\ (object' = object => open' = open)
    /\ phase' = (IF object = {} THEN "none" ELSE phase)
    /\ grounds' = Finding(open')

Delete == object # {} /\ object' = {} /\ phase' = "none" /\ ~open' /\ grounds' = Finding(open')

Ask ==
    /\ object # {} /\ phase' = "Unknown"
    /\ grounds' = Finding(open)
    /\ UNCHANGED <<object, open>>

(* The frp server changes its mind; a login fails on its way.              *)
Turn ==
    /\ object # {} /\ open' = ~open
    /\ grounds' = grounds \union Finding(open')
    /\ UNCHANGED <<object, phase>>

Trouble == grounds' = grounds \union {"Unhealthy"} /\ UNCHANGED <<object, phase, open>>

Next == Report \/ Defer \/ Submit \/ Delete \/ Ask \/ Turn \/ Trouble

Spec == Init /\ [][Next]_vars

=============================================================================
