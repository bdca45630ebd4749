-------------------------- MODULE ServiceController --------------------------
(***************************************************************************)
(* The reconciler of pkg/controller/service_controller.go for one Service  *)
(* name, with everything it runs against: the API server, the two informer *)
(* caches it reads (Services and Pods, each lagging on its own), the       *)
(* work queue that deduplicates keys, and the users, kubelets and garbage  *)
(* collector that change the same objects.                                 *)
(*                                                                         *)
(* One step of the model is one call the reconciler makes: a read of a     *)
(* cache, or one request to the API server.                                *)
(***************************************************************************)
EXTENDS Naturals, Sequences, FiniteSets, ClaimRules

CONSTANTS
    Pods,             \* the pods the namespace can hold at a time (its quota)
    Tracking,         \* v1beta1.FinalizerName
    OtherFinalizers,  \* finalizers other controllers put on the Service
    MaxLag,           \* events an informer may be behind the API server
    Fuel              \* how often each disturbance may happen

Finalizers == OtherFinalizers \union {Tracking}
Disturbances == {"edit", "pod", "fault", "crash", "gap", "any"}

ASSUME ServiceAssumption ==
    /\ Tracking \notin OtherFinalizers /\ IsFiniteSet(OtherFinalizers)
    /\ NoOwner \notin Nat /\ Foreign \notin Nat
    /\ MaxLag \in Nat \ {0}
    /\ Fuel \in [Disturbances -> Nat]

VARIABLES
    svcLog,   \* history of the Service, from the cached to the stored version
    podLog,   \* history of all pods, from the cached to the stored one
    queued,   \* the key is in the work queue
    backoff,  \* the key waits in the rate limiter (AddRateLimited)
    pc,       \* the call the worker makes next
    inst,     \* the Service this Reconcile works on
    view,     \* the pods getOwnedPods returned, as they were listed
    todo,     \* the pods the current loop has left
    claimed,  \* claimedPods
    mayAdopt, \* result of canAdoptOnce
    failed,   \* errsList is not empty
    late,     \* requests of dead processes, still on their way
    fuel      \* disturbances left

locals == <<inst, view, todo, claimed, mayAdopt, failed>>
vars == <<svcLog, podLog, queued, backoff, pc, locals, late, fuel>>

-----------------------------------------------------------------------------
(* Objects.  uid 0 is "no such Service", state "none" is "no such Pod".    *)

Service == [uid : Nat, rv : Nat, lb : BOOLEAN, ann : BOOLEAN,
            fins : SUBSET Finalizers, del : BOOLEAN]
NoService(rv) == [uid |-> 0, rv |-> rv, lb |-> FALSE, ann |-> FALSE,
                  fins |-> {}, del |-> FALSE]

Pod == [state : {"none", "run", "done"}, owner : Nat \union {NoOwner, Foreign},
        label : Nat, del : BOOLEAN, rv : Nat]
NoPod == [state |-> "none", owner |-> NoOwner, label |-> 0, del |-> FALSE, rv |-> 0]
NoPods == [p \in Pods |-> NoPod]

(* A request, by the place in Reconcile that sends it: the Service it is   *)
(* for, and the pod it is about as that was listed.                        *)
Places == {"claim", "reap", "evict", "guard", "create"}
Request == [at : Places, inst : Service, on : SUBSET Pods, seen : Pod]

svc == svcLog[Len(svcLog)]
cachedSvc == svcLog[1]
pods == podLog[Len(podLog)]
cachedPods == podLog[1]

IsPodActive(pod) == pod.state = "run" /\ ~pod.del

(* The labels getOwnedPods selects on.                                     *)
Selected(pod, uid) == pod.state # "none" /\ pod.label = uid

(* Mutant: the deletion timestamp is not looked at.                        *)
WantedForEver(s) == s.lb /\ s.ann

(* Reconcile's test for keeping a Service exposed.                         *)
Wanted(s) == s.lb /\ s.ann /\ ~s.del

-----------------------------------------------------------------------------
(* The API server.                                                         *)

(* One disturbance of its kind, and one of all.                            *)
Spend(d) ==
    /\ fuel[d] > 0 /\ fuel["any"] > 0
    /\ fuel' = [fuel EXCEPT ![d] = fuel[d] - 1, !["any"] = fuel["any"] - 1]

(* Mutant: a write is never found to change nothing: it carries the time.  *)
PutServiceTimed(s) ==
    /\ Len(svcLog) <= MaxLag
    /\ svcLog' = Append(svcLog, IF s.del /\ s.fins = {} THEN NoService(svc.rv + 1)
                                ELSE [s EXCEPT !.rv = svc.rv + 1])

(* A write gets the next resourceVersion; a Service that is being deleted  *)
(* goes away with its last finalizer; a write that changes nothing is none.*)
PutService(s) ==
    IF s = svc THEN UNCHANGED svcLog
    ELSE /\ Len(svcLog) <= MaxLag
         /\ svcLog' = Append(svcLog, IF s.del /\ s.fins = {}
                                     THEN NoService(svc.rv + 1)
                                     ELSE [s EXCEPT !.rv = svc.rv + 1])

PutPod(p, pod) ==
    /\ Len(podLog) <= MaxLag
    /\ podLog' = Append(podLog, [pods EXCEPT ![p] = pod])

Touched(pod) == [pod EXCEPT !.rv = @ + 1]

(* The answer to a request that was carried out can still be an error.     *)
Answer(ok) == \/ ok /\ UNCHANGED fuel
              \/ ~ok /\ Spend("fault")

Lost(ok) == ~ok /\ Spend("fault")

(* Mutant: an Update that does not compare resourceVersions.               *)
UpdateServiceBlindly(s, ok) ==
    \/ PutService(s) /\ Answer(ok)
    \/ Lost(ok) /\ UNCHANGED svcLog

(* r.Update(ctx, instance): refused unless the resourceVersion is current. *)
UpdateService(s, ok) ==
    \/ inst.rv = svc.rv /\ PutService(s) /\ Answer(ok)
    \/ inst.rv # svc.rv /\ ~ok /\ UNCHANGED <<svcLog, fuel>>
    \/ Lost(ok) /\ UNCHANGED svcLog

(* Mutant: the adoption overwrites whatever the pod has become.            *)
UpdateOwnerBlindly(p, ok) ==
    \/ /\ pods[p].state # "none"
       /\ PutPod(p, Touched([view[p] EXCEPT !.owner = inst.uid, !.rv = pods[p].rv]))
       /\ Answer(ok)
    \/ Lost(ok) /\ UNCHANGED podLog

(* updateOwner: the Update that adopts a pod as it was listed.             *)
UpdateOwner(p, ok) ==
    \/ /\ view[p].rv = pods[p].rv
       /\ PutPod(p, Touched([view[p] EXCEPT !.owner = inst.uid]))
       /\ Answer(ok)
    \/ view[p].rv # pods[p].rv /\ ~ok /\ UNCHANGED <<podLog, fuel>>
    \/ Lost(ok) /\ UNCHANGED podLog

(* r.Delete(ctx, pod), NotFound ignored: pods terminate gracefully.        *)
DeletePod(p, ok) ==
    \/ /\ pods[p].state # "none" /\ ~pods[p].del
       /\ PutPod(p, Touched([pods[p] EXCEPT !.del = TRUE]))
       /\ Answer(ok)
    \/ /\ pods[p].state = "none" \/ pods[p].del
       /\ ok /\ UNCHANGED <<podLog, fuel>>
    \/ Lost(ok) /\ UNCHANGED podLog

(* Names are generated: a new pod is none that anyone still refers to.     *)
Free(p) == /\ \A i \in 1..Len(podLog) : podLog[i][p] = NoPod
           /\ view[p] = NoPod /\ p \notin claimed \union todo
           /\ \A r \in late : p \notin r.on

-----------------------------------------------------------------------------
(* Reconcile.                                                              *)

Reset ==
    /\ pc' = "idle" /\ inst' = NoService(0) /\ view' = NoPods
    /\ todo' = {} /\ claimed' = {} /\ mayAdopt' = "unasked" /\ failed' = FALSE

(* Mutant: the error is logged and nil returned.                           *)
ReturnNil(ok) == Reset /\ UNCHANGED <<backoff, queued>>

(* Reconcile returns; an error puts the key into the rate limiter.         *)
Return(ok) == Reset /\ backoff' = (backoff \/ ~ok) /\ UNCHANGED queued

(* r.Get: the key leaves the queue and the cached Service is read.         *)
GetService ==
    /\ pc = "idle" /\ queued
    /\ queued' = FALSE
    /\ IF cachedSvc.uid = 0
       THEN UNCHANGED <<pc, inst>>
       ELSE pc' = "list" /\ inst' = cachedSvc
    /\ UNCHANGED <<svcLog, podLog, backoff, view, todo, claimed, mayAdopt, failed, late, fuel>>

(* Mutant: the error of the Get is logged and nil returned.                *)
GetServiceFailsQuietly ==
    /\ pc = "idle" /\ queued
    /\ Spend("fault")
    /\ queued' = FALSE
    /\ UNCHANGED <<svcLog, podLog, backoff, pc, locals, late>>

GetServiceFails ==
    /\ pc = "idle" /\ queued
    /\ Spend("fault")
    /\ queued' = FALSE /\ backoff' = TRUE
    /\ UNCHANGED <<svcLog, podLog, pc, locals, late>>

(* Mutant: whoever owns a pod with our labels, it is claimed.              *)
ListPodsGreedy ==
    /\ pc = "list"
    /\ LET listed == {p \in Pods : Selected(cachedPods[p], inst.uid)}
           active == {p \in listed : IsPodActive(cachedPods[p])}
       IN /\ view' = [p \in Pods |-> IF p \in listed THEN cachedPods[p] ELSE NoPod]
          /\ claimed' = active
    /\ pc' = "claim"
    /\ UNCHANGED <<svcLog, podLog, queued, backoff, inst, todo, mayAdopt, failed, late, fuel>>

(* getOwnedPods, and the part of claimPods that calls nobody.              *)
ListPods ==
    /\ pc = "list"
    /\ LET listed == {p \in Pods : Selected(cachedPods[p], inst.uid)}
           active == {p \in listed : IsPodActive(cachedPods[p])}
       IN /\ view' = [p \in Pods |-> IF p \in listed THEN cachedPods[p] ELSE NoPod]
          /\ claimed' = {p \in active : Claim(cachedPods[p], inst, TRUE) = "claim"}
          /\ todo' = {p \in active : Claim(cachedPods[p], inst, TRUE) = "adopt"}
    /\ pc' = "claim"
    /\ UNCHANGED <<svcLog, podLog, queued, backoff, inst, mayAdopt, failed, late, fuel>>

ListPodsFails ==
    /\ pc = "list"
    /\ Spend("fault")
    /\ Return(FALSE)
    /\ UNCHANGED <<svcLog, podLog, late>>

(* canAdoptOnce: the first adoption reads the owner again, from the cache. *)
CanAdoptOnce ==
    /\ pc = "claim" /\ todo # {} /\ mayAdopt = "unasked"
    /\ \/ /\ mayAdopt' = IF canAdopt(inst, cachedSvc) THEN "yes" ELSE "no"
          /\ UNCHANGED fuel
       \/ mayAdopt' = "no" /\ Spend("fault")
    /\ UNCHANGED <<svcLog, podLog, queued, backoff, pc, inst, view, todo, claimed, failed, late>>

Adopt(p) ==
    /\ pc = "claim" /\ p \in todo /\ mayAdopt # "unasked"
    /\ \E ok \in BOOLEAN :
          /\ \/ mayAdopt = "yes" /\ UpdateOwner(p, ok)
             \/ mayAdopt = "no" /\ ~ok /\ UNCHANGED <<podLog, fuel>>
          /\ claimed' = IF ok THEN claimed \union {p} ELSE claimed
          /\ failed' = (failed \/ ~ok)
    /\ todo' = todo \ {p}
    /\ UNCHANGED <<svcLog, queued, backoff, pc, inst, view, mayAdopt, late>>

(* Mutant: whatever was listed and not claimed is taken for inactive.      *)
ClaimedReapAll ==
    /\ pc = "claim" /\ todo = {}
    /\ \/ failed /\ Return(FALSE)
       \/ /\ ~failed
          /\ pc' = "reap"
          /\ todo' = {p \in Pods : view[p].state # "none"} \ claimed
          /\ view' = NoPods
          /\ UNCHANGED <<queued, backoff, inst, claimed, mayAdopt, failed>>
    /\ UNCHANGED <<svcLog, podLog, late, fuel>>

(* The end of claimPods: any error ends Reconcile.                         *)
Claimed ==
    /\ pc = "claim" /\ todo = {}
    /\ \/ failed /\ Return(FALSE)
       \/ /\ ~failed
          /\ pc' = "reap"
          /\ todo' = {p \in Pods : view[p].state # "none" /\ ~IsPodActive(view[p])}
          /\ view' = NoPods
          /\ UNCHANGED <<queued, backoff, inst, claimed, mayAdopt, failed>>
    /\ UNCHANGED <<svcLog, podLog, late, fuel>>

(* One r.Delete of the loop over inactivePods, or of that over claimedPods.*)
Delete(p) ==
    /\ pc \in {"reap", "evict"} /\ p \in todo
    /\ \E ok \in BOOLEAN : DeletePod(p, ok) /\ failed' = (failed \/ ~ok)
    /\ todo' = todo \ {p}
    /\ UNCHANGED <<svcLog, queued, backoff, pc, inst, view, claimed, mayAdopt, late>>

(* Mutant: the finalizer is taken for granted.                             *)
DecideUnguarded ==
    /\ pc = "reap" /\ todo = {}
    /\ \/ failed /\ Return(FALSE)
       \/ /\ ~failed
          /\ \/ ~Wanted(inst) /\ pc' = "evict" /\ todo' = claimed
             \/ Wanted(inst) /\ pc' = "create" /\ UNCHANGED todo
          /\ UNCHANGED <<queued, backoff, inst, view, claimed, mayAdopt, failed>>
    /\ UNCHANGED <<svcLog, podLog, late, fuel>>

(* The inactive pods are dealt with: return their errors or choose a side. *)
Decide ==
    /\ pc = "reap" /\ todo = {}
    /\ \/ failed /\ Return(FALSE)
       \/ /\ ~failed
          /\ \/ ~Wanted(inst) /\ pc' = "evict" /\ todo' = claimed
             \/ /\ Wanted(inst)
                /\ pc' = IF Tracking \in inst.fins THEN "create" ELSE "guard"
                /\ UNCHANGED todo
          /\ UNCHANGED <<queued, backoff, inst, view, claimed, mayAdopt, failed>>
    /\ UNCHANGED <<svcLog, podLog, late, fuel>>

(* Mutant: the clean branch deletes the pods and keeps the finalizer.      *)
KeepFinalizer ==
    /\ pc = "evict" /\ todo = {}
    /\ Return(~failed)
    /\ UNCHANGED <<svcLog, podLog, late, fuel>>

(* The claimed pods have been deleted, or not: the finalizer goes anyway.  *)
RemoveFinalizer ==
    /\ pc = "evict" /\ todo = {}
    /\ \E ok \in BOOLEAN :
          /\ UpdateService([inst EXCEPT !.fins = @ \ {Tracking}], ok)
          /\ Return(ok /\ ~failed)
    /\ UNCHANGED <<podLog, late>>

(* The client refreshes instance from the answer; only its UID is read on. *)
AddFinalizer ==
    /\ pc = "guard"
    /\ \E ok \in BOOLEAN :
          /\ UpdateService([inst EXCEPT !.fins = @ \union {Tracking}], ok)
          /\ \/ ok /\ pc' = "create"
                /\ UNCHANGED <<queued, backoff, locals>>
             \/ ~ok /\ Return(FALSE)
    /\ UNCHANGED <<podLog, late>>

(* Mutants: the pod without its labels, and without its controller.        *)
UnlabelledPod(uid) == [state |-> "run", owner |-> uid, label |-> NoOwner, del |-> FALSE, rv |-> 1]
OrphanPod(uid) == [state |-> "run", owner |-> NoOwner, label |-> uid, del |-> FALSE, rv |-> 1]

(* The pod made from the template: labelled for the Service and controlled *)
(* by it.                                                                  *)
generatePod(uid) == [state |-> "run", owner |-> uid, label |-> uid, del |-> FALSE, rv |-> 1]

(* generatePod and r.Create, when nothing is claimed.  A template that     *)
(* does not parse ends Reconcile as a request that fails does.             *)
CreatePod ==
    /\ pc = "create" /\ claimed = {}
    /\ \E ok \in BOOLEAN :
          /\ \/ \E p \in Pods : Free(p) /\ PutPod(p, generatePod(inst.uid)) /\ Answer(ok)
             \/ (\A p \in Pods : ~Free(p)) /\ ~ok /\ UNCHANGED <<podLog, fuel>>
             \/ Lost(ok) /\ UNCHANGED podLog
          /\ Return(ok)
    /\ UNCHANGED <<svcLog, late>>

KeepPods ==
    /\ pc = "create" /\ claimed # {}
    /\ Return(TRUE)
    /\ UNCHANGED <<svcLog, podLog, late, fuel>>

Reconcile ==
    \/ GetService \/ GetServiceFails \/ ListPods \/ ListPodsFails
    \/ CanAdoptOnce \/ (\E p \in Pods : Adopt(p)) \/ Claimed
    \/ (\E p \in Pods : Delete(p)) \/ Decide
    \/ RemoveFinalizer \/ AddFinalizer \/ CreatePod \/ KeepPods

-----------------------------------------------------------------------------
(* What SetupWithManager connects: informers, handlers and the queue.      *)

worker == <<pc, locals, late>>

(* For(&v1.Service{}): every event of the Service enqueues its key.        *)
DeliverService ==
    /\ Len(svcLog) > 1
    /\ svcLog' = Tail(svcLog)
    /\ queued' = TRUE
    /\ UNCHANGED <<podLog, backoff, worker, fuel>>

(* Mutant: the controller a pod gets is not told.                          *)
EnqueuesOld(old, new) == \E p \in Pods : old[p] # new[p] /\ old[p].owner \in Nat

(* Owns(&v1.Pod{}): the controller of the old or of the new pod, if it is  *)
(* a Service (of this name, whatever its UID), is enqueued.                *)
Enqueues(old, new) ==
    \E p \in Pods : /\ old[p] # new[p]
                    /\ old[p].owner \in Nat \/ new[p].owner \in Nat

DeliverPod ==
    /\ Len(podLog) > 1
    /\ podLog' = Tail(podLog)
    /\ queued' = (queued \/ Enqueues(podLog[1], podLog[2]))
    /\ UNCHANGED <<svcLog, backoff, worker, fuel>>

(* A watch breaks and the informer lists again: it sees where the objects  *)
(* have got to, and reports what differs from its cache.                   *)
RelistServices ==
    /\ Len(svcLog) > 1
    /\ svcLog' = <<svc>>
    /\ queued' = (queued \/ cachedSvc.uid # 0 \/ svc.uid # 0)
    /\ UNCHANGED <<podLog, backoff, worker, fuel>>

(* The list shows no change of a Service's pod where the watch would have: *)
(* such a pod came and went.                                               *)
Swallows ==
    /\ ~Enqueues(cachedPods, pods)
    /\ \E i \in 1..(Len(podLog) - 1) : Enqueues(podLog[i], podLog[i + 1])

RelistPods ==
    /\ Len(podLog) > 1
    /\ podLog' = <<pods>>
    /\ queued' = (queued \/ Enqueues(cachedPods, pods))
    /\ IF Swallows THEN Spend("gap") ELSE UNCHANGED fuel
    /\ UNCHANGED <<svcLog, backoff, worker>>

BackoffExpires ==
    /\ backoff
    /\ backoff' = FALSE /\ queued' = TRUE
    /\ UNCHANGED <<svcLog, podLog, worker, fuel>>

(* The informer's periodic resync.                                         *)
Resync ==
    /\ cachedSvc.uid # 0 /\ ~queued
    /\ queued' = TRUE
    /\ UNCHANGED <<svcLog, podLog, backoff, worker, fuel>>

(* The requests the worker may have sent when it dies: about a pod of the  *)
(* current loop, or about the Service.                                     *)
AboutPods == {p \in todo : \/ pc \in {"reap", "evict"}
                           \/ pc = "claim" /\ mayAdopt = "yes"}

AboutService == \/ pc = "evict" /\ todo = {}
                \/ pc = "guard"
                \/ pc = "create" /\ claimed = {}

InFlight ==
    {[at |-> pc, inst |-> inst, on |-> {p}, seen |-> view[p]] : p \in AboutPods}
    \union IF AboutService
           THEN {[at |-> pc, inst |-> inst, on |-> {}, seen |-> NoPod]}
           ELSE {}

(* The manager is killed, or exits because it lost the lease.  The next    *)
(* one lists everything anew; a request of the last one may still be on    *)
(* its way to the API server.                                              *)
Restart ==
    /\ Spend("crash")
    /\ Reset
    /\ svcLog' = <<svc>> /\ podLog' = <<pods>>
    /\ queued' = (svc.uid # 0 \/ \E p \in Pods : pods[p].owner \in Nat)
    /\ backoff' = FALSE
    /\ UNCHANGED late \/ \E r \in InFlight : late' = late \union {r}

Manager ==
    \/ DeliverService \/ DeliverPod \/ RelistServices \/ RelistPods
    \/ BackoffExpires \/ Resync \/ Restart

-----------------------------------------------------------------------------
(* Requests the worker of an earlier process sent.                         *)

(* What the API server does with a request, unless it refuses it.          *)
Serve(r) ==
    \/ /\ r.on = {} /\ r.at \in {"evict", "guard"} /\ r.inst.rv = svc.rv
       /\ PutService([r.inst EXCEPT !.fins = IF r.at = "guard" THEN @ \union {Tracking}
                                             ELSE @ \ {Tracking}])
       /\ UNCHANGED podLog
    \/ /\ r.on = {} /\ r.at = "create"
       /\ \E p \in Pods : Free(p) /\ PutPod(p, generatePod(r.inst.uid))
       /\ UNCHANGED svcLog
    \/ /\ r.at = "claim"
       /\ \E p \in r.on : /\ r.seen.rv = pods[p].rv
                          /\ PutPod(p, Touched([r.seen EXCEPT !.owner = r.inst.uid]))
       /\ UNCHANGED svcLog
    \/ /\ r.at \in {"reap", "evict"}
       /\ \E p \in r.on : /\ pods[p].state # "none" /\ ~pods[p].del
                          /\ PutPod(p, Touched([pods[p] EXCEPT !.del = TRUE]))
       /\ UNCHANGED svcLog

(* A late request is carried out, or refused or lost; nobody is told.      *)
LateRequest ==
    /\ \E r \in late : late' = late \ {r} /\ (Serve(r) \/ UNCHANGED <<svcLog, podLog>>)
    /\ UNCHANGED <<queued, backoff, pc, locals, fuel>>

-----------------------------------------------------------------------------
(* Everyone else who writes Services and Pods.                             *)

manager == <<queued, backoff, worker>>

CreateService ==
    /\ svc.uid = 0 /\ Spend("edit")
    /\ \E lb, ann \in BOOLEAN, fins \in SUBSET OtherFinalizers :
          PutService([uid |-> svc.rv + 1, rv |-> 0, lb |-> lb, ann |-> ann,
                      fins |-> fins, del |-> FALSE])
    /\ UNCHANGED <<podLog, manager>>

EditService ==
    /\ svc.uid # 0 /\ Spend("edit")
    /\ \E lb, ann \in BOOLEAN : PutService([svc EXCEPT !.lb = lb, !.ann = ann])
    /\ UNCHANGED <<podLog, manager>>

DeleteService ==
    /\ svc.uid # 0 /\ ~svc.del /\ Spend("edit")
    /\ PutService([svc EXCEPT !.del = TRUE])
    /\ UNCHANGED <<podLog, manager>>

DropOtherFinalizer ==
    /\ svc.del
    /\ \E f \in svc.fins \ {Tracking} : PutService([svc EXCEPT !.fins = @ \ {f}])
    /\ UNCHANGED <<podLog, manager, fuel>>

(* A pod with our labels that somebody else makes.                         *)
CreateOtherPod(p) ==
    /\ svc.uid # 0 /\ Free(p) /\ Spend("pod")
    /\ \E owner \in {NoOwner, Foreign} :
          PutPod(p, [state |-> "run", owner |-> owner, label |-> svc.uid,
                     del |-> FALSE, rv |-> 1])
    /\ UNCHANGED <<svcLog, manager>>

(* A pod's controller reference is removed, or a foreign one is added.     *)
ChangeOwner(p) ==
    /\ pods[p].state # "none" /\ pods[p].owner # Foreign /\ Spend("pod")
    /\ PutPod(p, Touched([pods[p] EXCEPT !.owner = IF @ = NoOwner THEN Foreign ELSE NoOwner]))
    /\ UNCHANGED <<svcLog, manager>>

(* The containers of a pod end, in whatever way.                           *)
FinishPod(p) ==
    /\ pods[p].state = "run" /\ Spend("pod")
    /\ PutPod(p, Touched([pods[p] EXCEPT !.state = "done"]))
    /\ UNCHANGED <<svcLog, manager>>

(* Eviction, preemption, kubectl delete.                                   *)
KillPod(p) ==
    /\ pods[p].state # "none" /\ ~pods[p].del /\ Spend("pod")
    /\ PutPod(p, Touched([pods[p] EXCEPT !.del = TRUE]))
    /\ UNCHANGED <<svcLog, manager>>

RemovePod(p) ==
    /\ pods[p].del
    /\ PutPod(p, NoPod)
    /\ UNCHANGED <<svcLog, manager, fuel>>

(* The garbage collector deletes pods whose controller no longer exists.   *)
CollectGarbage(p) ==
    /\ pods[p].owner \in Nat /\ pods[p].owner # svc.uid /\ ~pods[p].del
    /\ PutPod(p, Touched([pods[p] EXCEPT !.del = TRUE]))
    /\ UNCHANGED <<svcLog, manager, fuel>>

Others ==
    \/ CreateService \/ EditService \/ DeleteService \/ DropOtherFinalizer
    \/ \E p \in Pods : \/ CreateOtherPod(p) \/ ChangeOwner(p) \/ FinishPod(p)
                       \/ KillPod(p) \/ RemovePod(p) \/ CollectGarbage(p)

-----------------------------------------------------------------------------
Init ==
    /\ svcLog = <<NoService(0)>> /\ podLog = <<NoPods>>
    /\ queued = FALSE /\ backoff = FALSE
    /\ pc = "idle" /\ inst = NoService(0) /\ view = NoPods
    /\ todo = {} /\ claimed = {} /\ mayAdopt = "unasked" /\ failed = FALSE
    /\ late = {} /\ fuel = Fuel

Next == Reconcile \/ Manager \/ LateRequest \/ Others

Spec == Init /\ [][Next]_vars

(* The worker runs, watches deliver, delays end, kubelets and the other    *)
(* controllers do their part.  Nothing obliges users, faults or crashes.   *)
Fairness ==
    /\ WF_vars(Reconcile)
    /\ WF_vars(DeliverService) /\ WF_vars(DeliverPod) /\ WF_vars(BackoffExpires)
    /\ WF_vars(DropOtherFinalizer) /\ WF_vars(LateRequest)
    /\ \A p \in Pods : WF_vars(RemovePod(p)) /\ WF_vars(CollectGarbage(p))

FairSpec == Spec /\ Fairness
-----------------------------------------------------------------------------
(* Properties.                                                             *)

(* Every variable has its type: both histories hold at least the cached    *)
(* version, and the locals of Reconcile stay within what its loops use.    *)
TypeOK ==
    /\ svcLog \in Seq(Service) /\ svcLog # <<>>
    /\ podLog \in Seq([Pods -> Pod]) /\ podLog # <<>>
    /\ queued \in BOOLEAN /\ backoff \in BOOLEAN
    /\ pc \in {"idle", "list", "claim", "reap", "evict", "guard", "create"}
    /\ inst \in Service /\ view \in [Pods -> Pod]
    /\ todo \in SUBSET Pods /\ claimed \in SUBSET Pods
    /\ mayAdopt \in {"unasked", "yes", "no"} /\ failed \in BOOLEAN
    /\ late \in SUBSET Request /\ fuel \in [Disturbances -> Nat]

(* A pod is only ever created for a Service that the API server protects   *)
(* with our finalizer, or that is already gone: however stale the caches,  *)
(* the reconciler never exposes a Service whose deletion it would miss     *)
(* (service_controller.go:158-175, the finalizer before the pod).          *)
GuardedCreate ==
    pc = "create" /\ svc.uid = inst.uid => Tracking \in svc.fins

OwnedPods == {p \in Pods : Selected(pods[p], svc.uid) /\ pods[p].owner = svc.uid}

Settled == /\ pc = "idle" /\ ~queued /\ ~backoff
           /\ Len(svcLog) = 1 /\ Len(podLog) = 1

(* No list has swallowed a wake-up.                                        *)
NoGap == fuel["gap"] = Fuel["gap"]

(* The controller never rests on unfinished work: when nothing is queued,  *)
(* delayed or undelivered, an exposed Service has its finalizer and a      *)
(* running pod of its own, any other Service has neither, and no finished  *)
(* pod is left undeleted.  No event, error, crash, late request or relist  *)
(* may lose the wake-up this needs, unless a list hid a pod that came and  *)
(* went (service_controller.go:107-177, 241-246).                          *)
RestsOnlyConverged ==
    Settled /\ NoGap /\ svc.uid # 0 =>
        /\ Wanted(svc) <=> Tracking \in svc.fins
        /\ Wanted(svc) <=> \E p \in OwnedPods : IsPodActive(pods[p])
        /\ \A p \in OwnedPods : pods[p].state = "done" => pods[p].del

InSync == Len(svcLog) = 1 /\ Len(podLog) = 1 /\ ~queued

(* Wrong decisions need stale caches: while the caches are current and     *)
(* nothing happened since Reconcile began, it never evicts the pods of a   *)
(* Service that should be exposed or of another controller, and never      *)
(* creates a second pod next to a running one (service_controller.go:142,  *)
(* 165).                                                                   *)
RightWhenInSync ==
    InSync /\ NoGap /\ svc.uid # 0 =>
        /\ pc = "evict" => svc.uid = inst.uid /\ ~Wanted(svc) /\ todo \subseteq OwnedPods
        /\ pc = "create" /\ claimed = {} => \A p \in OwnedPods : ~IsPodActive(pods[p])

(* Work on overtaken reads is never the last word: as soon as a cache no   *)
(* longer shows the Service that Reconcile works on, or shows a running    *)
(* pod of it that the list did not, the key is in the queue again.  So a   *)
(* Service is withdrawn on an old version, or gets a second pod, only with *)
(* another Reconcile to follow (service_controller.go:107-131, 241-246).   *)
StaleWorkIsRedone ==
    pc # "idle" /\ ~queued =>
        /\ inst = cachedSvc
        /\ pc # "list" =>
              {p \in Pods : /\ Selected(cachedPods[p], inst.uid) /\ IsPodActive(cachedPods[p])
                            /\ cachedPods[p].owner = inst.uid} \subseteq claimed

(* The loop over inactivePods deletes by label, whoever owns the pod, and  *)
(* some time after the list was read: it never takes a pod that runs       *)
(* (service_controller.go:133-139).                                        *)
ReapsOnlyInactive == pc = "reap" => \A p \in todo : ~IsPodActive(pods[p])

(* A pod that another controller owns keeps its owner as long as it exists:*)
(* adopting from a stale list, or by a process that is gone, must not      *)
(* overwrite the reference (refmanager.go:140-162).                        *)
ForeignOwnerKept ==
    [][\A p \in Pods : pods[p].owner = Foreign =>
          pods'[p].owner = Foreign \/ pods'[p] = NoPod]_vars

(* The reconciler's two full Updates of the Service never undo what a user *)
(* or another controller wrote since it was read: they change our finalizer*)
(* and nothing else, or complete a deletion (service_controller.go:150-161)*)
OnlyFinalizerWritten ==
    [][(Reconcile \/ LateRequest) /\ svc' # svc =>
          \/ svc.del /\ svc' = NoService(svc.rv + 1)
          \/ \E fins \in SUBSET Finalizers :
                /\ fins \ {Tracking} = svc.fins \ {Tracking}
                /\ svc' = [svc EXCEPT !.fins = fins, !.rv = @ + 1]]_vars

Spent(d) == Fuel[d] - fuel[d]

(* Every version of the Service is paid for by its users: an edit leads to *)
(* one write of ours and no more, however stale the caches and however     *)
(* many processes and requests cross.  The reconciler watches the Service  *)
(* that it updates on every pass of the clean branch; an update that       *)
(* always changed something, or two processes that undid each other's,     *)
(* would wake it up for ever (service_controller.go:142-164, 241-246).     *)
ServiceWritesPaidFor ==
    svc.rv <= (2 + Cardinality(OtherFinalizers)) * Spent("edit")

(* The finalizer as the users see it: whatever the caches show and however *)
(* many processes have worked on it, a Service gets the finalizer only     *)
(* while it is to be exposed, loses it only while it is not, and does not  *)
(* vanish in between (service_controller.go:142-164).                      *)
Protocol == INSTANCE FinalizerProtocol
    WITH uid <- svc.uid, wanted <- svc.lb /\ svc.ann /\ ~svc.del,
         guarded <- Tracking \in svc.fins, leaving <- svc.del

ImplementsProtocol == Protocol!Spec

(* A Service that stays exposed ends up with a running pod for good, once  *)
(* disturbances cease, whatever faults and crashes came before.            *)
ExposedEventually ==
    <>[]Wanted(svc) => <>[](\E p \in OwnedPods : IsPodActive(pods[p]))

(* A Service that stays but is not to be exposed ends up without a running *)
(* pod and without our finalizer.                                          *)
WithdrawnEventually ==
    <>[](svc.uid # 0 /\ ~Wanted(svc)) =>
        <>[](Tracking \notin svc.fins /\ \A p \in OwnedPods : ~IsPodActive(pods[p]))

(* A deletion the user asked for completes: our finalizer does not block   *)
(* it for ever (service_controller.go:142-156).                            *)
DeletionCompletes == svc.del ~> ~svc.del

(* Pods do not outlive their Service: every pod made for a Service that is *)
(* gone, or was replaced by one of the same name, is removed, because      *)
(* generatePod made the Service its controller (service_controller.go:91). *)
PodsFollowService ==
    \A p \in Pods : pods[p].label # svc.uid ~> pods[p].state = "none"

=============================================================================
