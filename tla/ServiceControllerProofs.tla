----------------------- MODULE ServiceControllerProofs -----------------------
(***************************************************************************)
(* Proofs about ServiceController for any set of pods, any finalizers, any *)
(* informer lag and any number of disturbances.                            *)
(***************************************************************************)
EXTENDS ServiceController, HistoryLemmas

-----------------------------------------------------------------------------
(* The inductive invariant.                                                *)

(* Versions of the Service: resourceVersions grow along the history, a UID *)
(* is not larger than the version that introduced it, an absent Service is *)
(* not exposed, and what Reconcile works on is not newer than the cache.   *)
Versions ==
    /\ \A i, j \in 1..Len(svcLog) : i < j => svcLog[i].rv < svcLog[j].rv
    /\ \A i \in 1..Len(svcLog) : /\ svcLog[i].uid <= svcLog[i].rv
                                 /\ svcLog[i].uid = 0 => ~svcLog[i].lb
    /\ pc # "idle" => /\ inst.uid # 0 /\ inst.uid <= inst.rv
                      /\ inst.rv <= svcLog[1].rv
                      /\ inst.rv = svcLog[1].rv => inst = svcLog[1]

(* Once a version of a Service is exposed and carries our finalizer, no    *)
(* later version the cache has yet to show lacks it.                       *)
Guarded(s) == Wanted(s) /\ Tracking \in s.fins
Keeps(s, t) == Guarded(s) /\ t.uid = s.uid => Tracking \in t.fins

Sticky ==
    /\ \A i, j \in 1..Len(svcLog) : i < j => Keeps(svcLog[i], svcLog[j])
    /\ pc # "idle" => \A j \in 1..Len(svcLog) : Keeps(inst, svcLog[j])

Branches ==
    /\ pc = "evict" => ~Wanted(inst)
    /\ pc \in {"guard", "create"} => Wanted(inst)
    /\ pc = "guard" => Tracking \notin inst.fins

(* A request of a dead process is older than what the next one works on,   *)
(* and was right about the version it was made for.                        *)
LateInv ==
    \A r \in late :
        /\ r.inst.uid # 0 /\ r.inst.rv <= svcLog[1].rv
        /\ r.inst.rv = svcLog[1].rv => r.inst = svcLog[1]
        /\ pc # "idle" => r.inst.rv <= inst.rv
        /\ r.at = "evict" => ~Wanted(r.inst)
        /\ r.at = "guard" => Wanted(r.inst)

GuardInv == Versions /\ Sticky /\ Branches /\ LateInv /\ GuardedCreate

(* No event from the k-th pod snapshot on enqueues the key.                *)
QuietFrom(k) == \A i \in k..(Len(podLog) - 1) : ~Enqueues(podLog[i], podLog[i + 1])

(* Events that enqueue nothing do not touch pods of a Service.             *)
QuietKeepsOwned == \A k \in 1..Len(podLog) : QuietFrom(k) => ~Enqueues(podLog[k], pods)

(* No list has hidden more from the cache than Fuel allows.                *)
Budget == fuel["gap"] <= Fuel["gap"]

(* No wake-up is on its way: what Reconcile has read is still the truth.   *)
Calm == NoGap /\ ~queued /\ svc.uid # 0 /\ Len(svcLog) = 1 /\ QuietFrom(1)

Mine(pod) == Selected(pod, svc.uid) /\ pod.owner = svc.uid
Running == {p \in Pods : Mine(pods[p]) /\ IsPodActive(pods[p])}
Finished == {p \in Pods : Mine(pods[p]) /\ pods[p].state = "done" /\ ~pods[p].del}

Converged ==
    svc.uid # 0 =>
        /\ Wanted(svc) <=> Tracking \in svc.fins
        /\ Wanted(svc) <=> Running # {}
        /\ Finished = {}

CalmInv ==
    Calm =>
        /\ pc # "idle" => inst = svc
        /\ pc = "idle" /\ ~backoff => Converged
        /\ pc \notin {"idle", "list"} => claimed = Running
        /\ pc = "claim" => \A p \in Pods : Mine(pods[p]) => view[p] = pods[p]
        /\ pc = "reap" => failed \/ Finished \subseteq todo
        /\ pc \in {"evict", "guard", "create"} => Finished = {}
        /\ pc = "evict" => todo \subseteq claimed /\ (failed \/ claimed \subseteq todo)

IInv == TypeOK /\ GuardInv /\ Budget /\ QuietKeepsOwned /\ CalmInv

-----------------------------------------------------------------------------
(* Types.                                                                  *)

(* Both ends of both histories are well typed.                             *)
LEMMA Ends ==
    ASSUME TypeOK
    PROVE  /\ svc \in Service /\ cachedSvc \in Service
           /\ pods \in [Pods -> Pod] /\ cachedPods \in [Pods -> Pod]
           /\ Len(svcLog) \in Nat /\ Len(svcLog) >= 1
           /\ Len(podLog) \in Nat /\ Len(podLog) >= 1
           /\ \A i \in 1..Len(svcLog) : svcLog[i] \in Service
           /\ \A i \in 1..Len(podLog) : podLog[i] \in [Pods -> Pod]
<1>1. svcLog \in Seq(Service) /\ svcLog # <<>> /\ podLog \in Seq([Pods -> Pod]) /\ podLog # <<>>
  BY DEF TypeOK
<1> QED
  BY <1>1, LogEnds DEF svc, cachedSvc, pods, cachedPods

(* The first and the last version are in the histories.                    *)
LEMMA Indices ==
    ASSUME TypeOK
    PROVE  /\ 1 \in 1..Len(svcLog) /\ Len(svcLog) \in 1..Len(svcLog)
           /\ 1 \in 1..Len(podLog) /\ Len(podLog) \in 1..Len(podLog)
<1>1. Len(svcLog) \in Nat /\ Len(svcLog) >= 1 /\ Len(podLog) \in Nat /\ Len(podLog) >= 1
  BY Ends
<1> QED
  BY <1>1

(* Disturbances are used up one at a time.                                 *)
LEMMA SpendType ==
    ASSUME TypeOK, NEW d \in Disturbances, Spend(d)
    PROVE  /\ fuel' \in [Disturbances -> Nat]
           /\ \A e \in Disturbances : e \notin {d, "any"} => fuel'[e] = fuel[e]
           /\ d # "any" => fuel[d] \in Nat /\ fuel'[d] = fuel[d] - 1
<1>1. fuel \in [Disturbances -> Nat] /\ "any" \in Disturbances
  BY DEF TypeOK, Disturbances
<1>2. fuel[d] \in Nat /\ fuel["any"] \in Nat /\ fuel[d] > 0 /\ fuel["any"] > 0
  BY <1>1 DEF Spend
<1>3. fuel[d] - 1 \in Nat /\ fuel["any"] - 1 \in Nat
  BY <1>2
<1> QED
  BY <1>1, <1>2, <1>3 DEF Spend

(* The empty objects are objects.                                          *)
LEMMA EmptyObjects ==
    /\ \A rv \in Nat : NoService(rv) \in Service
    /\ NoPod \in Pod /\ NoPods \in [Pods -> Pod]
  BY DEF NoService, NoPod, NoPods, Service, Pod, Finalizers

(* A new version of a Service is a Service.                                *)
LEMMA VersionType ==
    ASSUME NEW s \in Service, NEW n \in Nat
    PROVE  /\ [s EXCEPT !.rv = n] \in Service
           /\ [s EXCEPT !.rv = n].rv = n
  BY DEF Service

(* What a write of a Service does to its history.                          *)
LEMMA PutServiceEffect ==
    ASSUME TypeOK, NEW s \in Service, PutService(s)
    PROVE  /\ svcLog' \in Seq(Service) /\ svcLog' # <<>>
           /\ \/ s = svc /\ svcLog' = svcLog
              \/ /\ s # svc
                 /\ Len(svcLog') = Len(svcLog) + 1
                 /\ \A i \in 1..Len(svcLog) : svcLog'[i] = svcLog[i]
                 /\ svc'.rv = svc.rv + 1
                 /\ \/ /\ s.del /\ s.fins = {}
                       /\ svc' = NoService(svc.rv + 1)
                       /\ svc'.uid = 0 /\ ~svc'.lb
                    \/ /\ svc' = [s EXCEPT !.rv = svc.rv + 1]
                       /\ svc'.uid = s.uid /\ svc'.fins = s.fins
                       /\ svc'.lb = s.lb /\ svc'.ann = s.ann /\ svc'.del = s.del
<1> DEFINE new == IF s.del /\ s.fins = {} THEN NoService(svc.rv + 1)
                  ELSE [s EXCEPT !.rv = svc.rv + 1]
<1>1. svc \in Service /\ svcLog \in Seq(Service) /\ svcLog # <<>>
  BY Ends DEF TypeOK
<1>2. new \in Service /\ new.rv = svc.rv + 1
  <2>1. NoService(svc.rv + 1) \in Service /\ NoService(svc.rv + 1).rv = svc.rv + 1
    BY <1>1, EmptyObjects DEF Service, NoService
  <2>2. [s EXCEPT !.rv = svc.rv + 1] \in Service /\ [s EXCEPT !.rv = svc.rv + 1].rv = svc.rv + 1
    <3>1. svc.rv + 1 \in Nat
      BY <1>1 DEF Service
    <3> QED
      BY <3>1, VersionType
  <2> QED
    BY <2>1, <2>2
<1>3. CASE s = svc
  BY <1>1, <1>3 DEF PutService
<1>4. CASE s # svc
  <2>1. svcLog' = Append(svcLog, new)
    BY <1>4 DEF PutService
  <2>2. svc' = new
    BY <1>1, <1>2, <2>1, LogAppend DEF svc
  <2>3. /\ svcLog' \in Seq(Service) /\ svcLog' # <<>>
        /\ Len(svcLog') = Len(svcLog) + 1
        /\ \A i \in 1..Len(svcLog) : svcLog'[i] = svcLog[i]
    BY <1>1, <1>2, <2>1, LogAppend
  <2>4. CASE s.del /\ s.fins = {}
    BY <1>2, <1>4, <2>2, <2>3, <2>4 DEF NoService
  <2>5. CASE ~(s.del /\ s.fins = {})
    <3>1. svc' = [s EXCEPT !.rv = svc.rv + 1]
      BY <2>2, <2>5
    <3>2. /\ svc'.uid = s.uid /\ svc'.fins = s.fins
          /\ svc'.lb = s.lb /\ svc'.ann = s.ann /\ svc'.del = s.del
      BY <3>1 DEF Service
    <3> QED
      BY <1>2, <1>4, <2>2, <2>3, <3>1, <3>2
  <2> QED
    BY <2>4, <2>5
<1> QED
  BY <1>3, <1>4

(* What a write of a pod does to the history of the pods.                  *)
LEMMA PutPodEffect ==
    ASSUME TypeOK, NEW p \in Pods, NEW pod \in Pod, PutPod(p, pod)
    PROVE  /\ podLog' \in Seq([Pods -> Pod]) /\ podLog' # <<>>
           /\ Len(podLog') = Len(podLog) + 1
           /\ \A i \in 1..Len(podLog) : podLog'[i] = podLog[i]
           /\ pods' = [pods EXCEPT ![p] = pod]
<1>1. pods \in [Pods -> Pod] /\ podLog \in Seq([Pods -> Pod]) /\ podLog # <<>>
  BY Ends DEF TypeOK
<1>2. [pods EXCEPT ![p] = pod] \in [Pods -> Pod]
  BY <1>1
<1>3. podLog' = Append(podLog, [pods EXCEPT ![p] = pod])
  BY DEF PutPod
<1> QED
  BY <1>1, <1>2, <1>3, LogAppend DEF pods

(* A new version of a pod is a pod.                                        *)
LEMMA TouchedType ==
    ASSUME NEW pod \in Pod
    PROVE  Touched(pod) \in Pod /\ Touched(pod).rv = pod.rv + 1
  BY DEF Touched, Pod

(* A pod made for a Service is a pod.                                      *)
LEMMA GeneratedType ==
    ASSUME NEW uid \in Nat
    PROVE  /\ generatePod(uid) \in Pod /\ generatePod(uid) # NoPod
           /\ generatePod(uid).owner = uid
  BY DEF generatePod, Pod, NoPod

(* The two pods that writes make of a pod that is there are pods.          *)
LEMMA WrittenType ==
    ASSUME NEW pod \in Pod, NEW uid \in Nat
    PROVE  /\ Touched([pod EXCEPT !.owner = uid]) \in Pod
           /\ Touched([pod EXCEPT !.del = TRUE]) \in Pod
<1>1. [pod EXCEPT !.owner = uid] \in Pod
  BY DEF Pod
<1>2. [pod EXCEPT !.del = TRUE] \in Pod
  BY Zenon DEF Pod
<1> QED
  BY <1>1, <1>2, TouchedType

(* What the worker may have sent is a request.                             *)
LEMMA InFlightType ==
    ASSUME TypeOK
    PROVE  InFlight \subseteq Request
<1>1. \A p \in Pods : view[p] \in Pod
  BY DEF TypeOK
<1>2. ASSUME NEW p \in todo, pc \in Places
      PROVE  [at |-> pc, inst |-> inst, on |-> {p}, seen |-> view[p]] \in Request
  BY <1>1, <1>2 DEF Request, TypeOK
<1>3. pc \in Places => [at |-> pc, inst |-> inst, on |-> {}, seen |-> NoPod] \in Request
  BY EmptyObjects DEF Request, TypeOK
<1>4. AboutService => pc \in Places
  BY DEF AboutService, Places
<1>5. \A p \in AboutPods : p \in todo /\ pc \in Places
  BY DEF AboutPods, Places
<1> QED
  BY <1>2, <1>3, <1>4, <1>5 DEF InFlight

(* Reset puts well-typed values into the locals.                           *)
LEMMA ResetType ==
    ASSUME TypeOK, Reset
    PROVE  /\ pc' = "idle" /\ inst' \in Service /\ view' \in [Pods -> Pod]
           /\ todo' = {} /\ claimed' = {} /\ mayAdopt' = "unasked" /\ failed' = FALSE
  BY EmptyObjects DEF Reset

(* An Update of the Service keeps the types, whatever its answer.          *)
LEMMA UpdateServiceType ==
    ASSUME TypeOK, NEW s \in Service, NEW ok, UpdateService(s, ok)
    PROVE  /\ svcLog' \in Seq(Service) /\ svcLog' # <<>>
           /\ fuel' \in [Disturbances -> Nat]
<1>1. fuel' \in [Disturbances -> Nat]
  BY SpendType DEF UpdateService, Answer, Lost, TypeOK, Disturbances
<1>2. svcLog' \in Seq(Service) /\ svcLog' # <<>>
  BY PutServiceEffect DEF UpdateService, TypeOK
<1> QED
  BY <1>1, <1>2

(* The adopting Update keeps the types.                                    *)
LEMMA UpdateOwnerType ==
    ASSUME TypeOK, NEW p \in Pods, NEW ok, UpdateOwner(p, ok)
    PROVE  /\ podLog' \in Seq([Pods -> Pod]) /\ podLog' # <<>>
           /\ fuel' \in [Disturbances -> Nat]
<1>1. fuel' \in [Disturbances -> Nat]
  BY SpendType DEF UpdateOwner, Answer, Lost, TypeOK, Disturbances
<1>2. Touched([view[p] EXCEPT !.owner = inst.uid]) \in Pod
  <2>1. view[p] \in Pod /\ inst.uid \in Nat
    BY DEF TypeOK, Service
  <2>2. [view[p] EXCEPT !.owner = inst.uid] \in Pod
    BY <2>1 DEF Pod
  <2> QED
    BY <2>2, TouchedType
<1>3. podLog' \in Seq([Pods -> Pod]) /\ podLog' # <<>>
  BY <1>2, PutPodEffect DEF UpdateOwner, TypeOK
<1> QED
  BY <1>1, <1>3

(* A Delete keeps the types.                                               *)
LEMMA DeletePodType ==
    ASSUME TypeOK, NEW p \in Pods, NEW ok, DeletePod(p, ok)
    PROVE  /\ podLog' \in Seq([Pods -> Pod]) /\ podLog' # <<>>
           /\ fuel' \in [Disturbances -> Nat]
<1>1. fuel' \in [Disturbances -> Nat]
  BY SpendType DEF DeletePod, Answer, Lost, TypeOK, Disturbances
<1>2. Touched([pods[p] EXCEPT !.del = TRUE]) \in Pod
  <2>1. pods[p] \in Pod
    BY Ends
  <2>2. [pods[p] EXCEPT !.del = TRUE] \in Pod
    BY Zenon, <2>1 DEF Pod
  <2> QED
    BY <2>2, TouchedType
<1>3. podLog' \in Seq([Pods -> Pod]) /\ podLog' # <<>>
  BY <1>2, PutPodEffect DEF DeletePod, TypeOK
<1> QED
  BY <1>1, <1>3

(* A step of Reconcile keeps the types.                                    *)
LEMMA ReconcileType ==
    ASSUME TypeOK, Reconcile
    PROVE  TypeOK'
<1> USE DEF locals
<1>1. CASE GetService
  BY Zenon, <1>1, Ends DEF GetService, TypeOK
<1>2. CASE GetServiceFails
  BY Zenon, <1>2, SpendType DEF GetServiceFails, TypeOK, Disturbances
<1>3. CASE ListPods
  <2>1. view' \in [Pods -> Pod] /\ claimed' \in SUBSET Pods /\ todo' \in SUBSET Pods
    BY Zenon, <1>3, Ends, EmptyObjects DEF ListPods
  <2> QED
    BY Zenon, <1>3, <2>1 DEF ListPods, TypeOK
<1>4. CASE ListPodsFails
  BY Zenon, <1>4, SpendType, ResetType DEF ListPodsFails, Return, TypeOK, Disturbances
<1>5. CASE CanAdoptOnce
  BY <1>5, SpendType DEF CanAdoptOnce, TypeOK, Disturbances
<1>6. ASSUME NEW p \in Pods, Adopt(p) PROVE TypeOK'
  <2>1. /\ podLog' \in Seq([Pods -> Pod]) /\ podLog' # <<>>
        /\ fuel' \in [Disturbances -> Nat]
    BY <1>6, UpdateOwnerType DEF Adopt, TypeOK
  <2>2. claimed' \in SUBSET Pods /\ failed' \in BOOLEAN /\ todo' \in SUBSET Pods
    BY <1>6 DEF Adopt, TypeOK
  <2> QED
    BY <1>6, <2>1, <2>2 DEF Adopt, TypeOK
<1>7. CASE Claimed
  <2>1. CASE Return(FALSE)
    BY Zenon, <1>7, <2>1, ResetType DEF Claimed, Return, TypeOK
  <2>2. CASE ~failed
    BY Zenon, <1>7, <2>2, EmptyObjects DEF Claimed, TypeOK
  <2> QED
    BY Zenon, <1>7, <2>1, <2>2 DEF Claimed
<1>8. ASSUME NEW p \in Pods, Delete(p) PROVE TypeOK'
  <2>1. /\ podLog' \in Seq([Pods -> Pod]) /\ podLog' # <<>>
        /\ fuel' \in [Disturbances -> Nat]
    BY <1>8, DeletePodType DEF Delete
  <2>2. failed' \in BOOLEAN /\ todo' \in SUBSET Pods
    BY <1>8 DEF Delete, TypeOK
  <2> QED
    BY <1>8, <2>1, <2>2 DEF Delete, TypeOK
<1>9. CASE Decide
  <2>1. CASE Return(FALSE)
    BY Zenon, <1>9, <2>1, ResetType DEF Decide, Return, TypeOK
  <2>2. CASE ~failed
    BY Zenon, <1>9, <2>2 DEF Decide, TypeOK
  <2> QED
    BY Zenon, <1>9, <2>1, <2>2 DEF Decide
<1>10. CASE RemoveFinalizer
  <2>1. [inst EXCEPT !.fins = @ \ {Tracking}] \in Service
    BY Zenon DEF TypeOK, Service
  <2>2. PICK ok \in BOOLEAN : UpdateService([inst EXCEPT !.fins = @ \ {Tracking}], ok)
                              /\ Return(ok /\ ~failed)
    BY <1>10 DEF RemoveFinalizer
  <2> QED
    BY Zenon, <1>10, <2>1, <2>2, UpdateServiceType, ResetType DEF RemoveFinalizer, Return, TypeOK
<1>11. CASE AddFinalizer
  <2>1. [inst EXCEPT !.fins = @ \union {Tracking}] \in Service
    BY Zenon DEF TypeOK, Service, Finalizers
  <2>2. PICK ok \in BOOLEAN :
           /\ UpdateService([inst EXCEPT !.fins = @ \union {Tracking}], ok)
           /\ \/ ok /\ pc' = "create" /\ UNCHANGED <<queued, backoff, locals>>
              \/ ~ok /\ Return(FALSE)
    BY Zenon, <1>11 DEF AddFinalizer
  <2> QED
    BY Zenon, <1>11, <2>1, <2>2, UpdateServiceType, ResetType DEF AddFinalizer, Return, TypeOK
<1>12. CASE CreatePod
  <2>1. generatePod(inst.uid) \in Pod
    BY GeneratedType DEF TypeOK, Service
  <2>2. /\ podLog' \in Seq([Pods -> Pod]) /\ podLog' # <<>>
        /\ fuel' \in [Disturbances -> Nat]
    BY <1>12, <2>1, PutPodEffect, SpendType DEF CreatePod, Answer, Lost, TypeOK, Disturbances
  <2> QED
    BY Zenon, <1>12, <2>2, ResetType DEF CreatePod, Return, TypeOK
<1>13. CASE KeepPods
  BY Zenon, <1>13, ResetType DEF KeepPods, Return, TypeOK
<1> QED
  BY <1>1, <1>2, <1>3, <1>4, <1>5, <1>6, <1>7, <1>8, <1>9, <1>10, <1>11, <1>12, <1>13
  DEF Reconcile

(* A delivery, a delay that ends, a resync or a restart keeps the types.   *)
LEMMA ManagerType ==
    ASSUME TypeOK, Manager
    PROVE  TypeOK'
<1> USE DEF locals, worker
<1>0. /\ <<svc>> \in Seq(Service) /\ <<svc>> # <<>>
      /\ <<pods>> \in Seq([Pods -> Pod]) /\ <<pods>> # <<>>
  BY Ends, LogSingle
<1>1. CASE DeliverService
  BY <1>1, LogTail DEF DeliverService, TypeOK
<1>2. CASE DeliverPod
  BY Zenon, <1>2, LogTail DEF DeliverPod, TypeOK
<1>3. CASE RelistServices
  BY <1>0, <1>3 DEF RelistServices, TypeOK
<1>4. CASE RelistPods
  <2>1. fuel' \in [Disturbances -> Nat]
    BY <1>4, SpendType DEF RelistPods, TypeOK, Disturbances
  <2> QED
    BY <1>0, <1>4, <2>1 DEF RelistPods, TypeOK
<1>5. CASE BackoffExpires
  BY Zenon, <1>5 DEF BackoffExpires, TypeOK
<1>6. CASE Resync
  BY <1>6 DEF Resync, TypeOK
<1>7. CASE Restart
  <2>1. late' \in SUBSET Request
    BY <1>7, InFlightType DEF Restart, TypeOK
  <2>2. fuel' \in [Disturbances -> Nat]
    BY <1>7, SpendType DEF Restart, Disturbances
  <2>3. svcLog' = <<svc>> /\ podLog' = <<pods>> /\ queued' \in BOOLEAN /\ backoff' \in BOOLEAN
    BY Zenon, <1>7 DEF Restart
  <2> QED
    BY Zenon, <1>0, <1>7, <2>1, <2>2, <2>3, ResetType DEF Restart, TypeOK
<1> QED
  BY <1>1, <1>2, <1>3, <1>4, <1>5, <1>6, <1>7 DEF Manager

(* Writes that do not come from the worker.                                *)
Outside == Others \/ LateRequest

OneWrite == \/ (\E s \in Service : PutService(s)) /\ UNCHANGED podLog
            \/ (\E p \in Pods, pod \in Pod : PutPod(p, pod)) /\ UNCHANGED svcLog

(* Every write of a user or another controller is one PutService of a      *)
(* Service or one PutPod of a pod, and nothing else.                       *)
LEMMA OthersWrite ==
    ASSUME TypeOK, Others
    PROVE  UNCHANGED manager /\ fuel' \in [Disturbances -> Nat] /\ OneWrite
<1> USE DEF Disturbances, OneWrite
<1>0. /\ svc \in Service /\ pods \in [Pods -> Pod]
      /\ fuel \in [Disturbances -> Nat]
  BY Ends DEF TypeOK
<1>1. CASE CreateService
  <2>1. \A lb, ann \in BOOLEAN, fins \in SUBSET OtherFinalizers :
           [uid |-> svc.rv + 1, rv |-> 0, lb |-> lb, ann |-> ann,
            fins |-> fins, del |-> FALSE] \in Service
    BY <1>0 DEF Service, Finalizers
  <2> QED
    BY <1>1, <2>1, SpendType DEF CreateService
<1>2. CASE EditService
  <2>1. \A lb, ann \in BOOLEAN : [svc EXCEPT !.lb = lb, !.ann = ann] \in Service
    BY Zenon, <1>0 DEF Service
  <2> QED
    BY Zenon, <1>2, <2>1, SpendType DEF EditService
<1>3. CASE DeleteService
  <2>1. [svc EXCEPT !.del = TRUE] \in Service
    BY Zenon, <1>0 DEF Service
  <2> QED
    BY <1>3, <2>1, SpendType DEF DeleteService
<1>4. CASE DropOtherFinalizer
  <2>1. \A f : [svc EXCEPT !.fins = @ \ {f}] \in Service
    BY <1>0 DEF Service
  <2> QED
    BY Zenon, <1>0, <1>4, <2>1 DEF DropOtherFinalizer
<1>5. ASSUME NEW p \in Pods, CreateOtherPod(p)
      PROVE  /\ UNCHANGED <<manager, svcLog>> /\ fuel' \in [Disturbances -> Nat]
             /\ \E pod \in Pod : PutPod(p, pod)
  <2>1. \A owner \in {NoOwner, Foreign} :
           [state |-> "run", owner |-> owner, label |-> svc.uid, del |-> FALSE, rv |-> 1] \in Pod
    BY <1>0 DEF Pod, Service
  <2> QED
    BY Zenon, <1>5, <2>1, SpendType DEF CreateOtherPod
<1>6. ASSUME NEW p \in Pods
      PROVE  /\ Touched([pods[p] EXCEPT !.del = TRUE]) \in Pod
             /\ Touched([pods[p] EXCEPT !.state = "done"]) \in Pod
             /\ Touched([pods[p] EXCEPT !.owner = IF @ = NoOwner THEN Foreign ELSE NoOwner]) \in Pod
  <2>1. pods[p] \in Pod
    BY <1>0
  <2>2. [pods[p] EXCEPT !.del = TRUE] \in Pod
    BY Zenon, <2>1 DEF Pod
  <2>3. [pods[p] EXCEPT !.state = "done"] \in Pod
    BY <2>1 DEF Pod
  <2>4. [pods[p] EXCEPT !.owner = IF @ = NoOwner THEN Foreign ELSE NoOwner] \in Pod
    BY <2>1 DEF Pod
  <2> QED
    BY <2>2, <2>3, <2>4, TouchedType
<1>7. ASSUME NEW p \in Pods, ChangeOwner(p) \/ FinishPod(p) \/ KillPod(p)
      PROVE  /\ UNCHANGED <<manager, svcLog>> /\ fuel' \in [Disturbances -> Nat]
             /\ \E pod \in Pod : PutPod(p, pod)
  BY <1>6, <1>7, SpendType DEF ChangeOwner, FinishPod, KillPod
<1>8. ASSUME NEW p \in Pods, RemovePod(p) \/ CollectGarbage(p)
      PROVE  /\ UNCHANGED <<manager, svcLog>> /\ fuel' \in [Disturbances -> Nat]
             /\ \E pod \in Pod : PutPod(p, pod)
  BY Zenon, <1>0, <1>6, <1>8, EmptyObjects DEF RemovePod, CollectGarbage
<1> QED
  BY <1>1, <1>2, <1>3, <1>4, <1>5, <1>7, <1>8 DEF Others

(* So is what comes of a late request.                                     *)
LEMMA LateWrite ==
    ASSUME TypeOK, LateRequest
    PROVE  /\ UNCHANGED <<queued, backoff, pc, locals, fuel>>
           /\ late' \subseteq late
           /\ OneWrite \/ UNCHANGED <<svcLog, podLog>>
<1>1. PICK r \in late : late' = late \ {r} /\ (Serve(r) \/ UNCHANGED <<svcLog, podLog>>)
  BY DEF LateRequest
<1>2. /\ r.inst \in Service /\ r.inst.uid \in Nat /\ r.on \in SUBSET Pods /\ r.seen \in Pod
      /\ r.inst.fins \in SUBSET Finalizers
  BY DEF TypeOK, Request, Service
<1>3. \A f \in SUBSET Finalizers : [r.inst EXCEPT !.fins = f] \in Service
  BY <1>2 DEF Service
<1>4. r.inst.fins \union {Tracking} \in SUBSET Finalizers /\ r.inst.fins \ {Tracking} \in SUBSET Finalizers
  BY <1>2 DEF Finalizers
<1>5. \A p \in Pods : pods[p] \in Pod
  BY Ends
<1>6. Serve(r) => OneWrite
  <2>1. CASE /\ PutService([r.inst EXCEPT !.fins = IF r.at = "guard" THEN @ \union {Tracking}
                                                   ELSE @ \ {Tracking}])
             /\ UNCHANGED podLog
    BY <1>3, <1>4, <2>1 DEF OneWrite
  <2>2. CASE UNCHANGED svcLog /\ \E p \in Pods : PutPod(p, generatePod(r.inst.uid))
    BY <1>2, <2>2, GeneratedType DEF OneWrite
  <2>3. CASE UNCHANGED svcLog /\ \E p \in r.on : PutPod(p, Touched([r.seen EXCEPT !.owner = r.inst.uid]))
    BY Zenon, <1>2, <2>3, WrittenType DEF OneWrite
  <2>4. CASE UNCHANGED svcLog /\ \E p \in r.on : PutPod(p, Touched([pods[p] EXCEPT !.del = TRUE]))
    BY Zenon, <1>2, <1>5, <2>4, WrittenType DEF OneWrite
  <2> QED
    BY <2>1, <2>2, <2>3, <2>4 DEF Serve
<1> QED
  BY <1>1, <1>6 DEF LateRequest

(* A write that does not come from the worker leaves it alone.             *)
LEMMA OutsideWrite ==
    ASSUME TypeOK, Outside
    PROVE  /\ UNCHANGED <<queued, backoff, pc, locals>> /\ late' \subseteq late
           /\ fuel' \in [Disturbances -> Nat]
           /\ OneWrite \/ UNCHANGED <<svcLog, podLog>>
<1>1. CASE Others
  BY <1>1, OthersWrite DEF manager, worker
<1>2. CASE LateRequest
  BY <1>2, LateWrite DEF TypeOK
<1> QED
  BY <1>1, <1>2 DEF Outside

(* It keeps the types.                                                     *)
LEMMA OutsideType ==
    ASSUME TypeOK, Outside
    PROVE  TypeOK'
<1>1. /\ UNCHANGED <<queued, backoff, pc, locals>> /\ late' \subseteq late
      /\ fuel' \in [Disturbances -> Nat]
  BY OutsideWrite
<1>2. svcLog' \in Seq(Service) /\ svcLog' # <<>>
  BY OutsideWrite, PutServiceEffect DEF OneWrite, TypeOK
<1>3. podLog' \in Seq([Pods -> Pod]) /\ podLog' # <<>>
  BY OutsideWrite, PutPodEffect DEF OneWrite, TypeOK
<1> QED
  BY <1>1, <1>2, <1>3 DEF TypeOK, locals

(* The initial state is well typed.                                        *)
LEMMA InitType == Init => TypeOK
<1> SUFFICES ASSUME Init PROVE TypeOK
  OBVIOUS
<1>1. NoService(0) \in Service /\ NoPods \in [Pods -> Pod]
  BY EmptyObjects
<1>2. svcLog \in Seq(Service) /\ svcLog # <<>>
  BY <1>1, LogSingle DEF Init
<1>3. podLog \in Seq([Pods -> Pod]) /\ podLog # <<>>
  BY <1>1, LogSingle DEF Init
<1> QED
  BY Zenon, <1>1, <1>2, <1>3, ServiceAssumption DEF Init, TypeOK

(* Every step keeps the types.                                             *)
LEMMA NextType == TypeOK /\ [Next]_vars => TypeOK'
<1> SUFFICES ASSUME TypeOK, [Next]_vars PROVE TypeOK'
  OBVIOUS
<1>1. CASE UNCHANGED vars
  BY <1>1 DEF vars, locals, TypeOK
<1> QED
  BY <1>1, ReconcileType, ManagerType, OutsideType DEF Next, Outside

(* In every reachable state the variables have their types.                *)
THEOREM TypeCorrect == Spec => []TypeOK
  BY InitType, NextType, PTL DEF Spec

-----------------------------------------------------------------------------
(* The finalizer comes before the pod.                                     *)

(* What the guard invariant needs of the next version of the Service:      *)
(* a new UID is new, and our finalizer stays on a Service that keeps its.  *)
Successor(s, t) ==
    /\ t.rv = s.rv + 1
    /\ t.uid \in {0, s.uid, s.rv + 1}
    /\ t.uid = 0 => ~t.lb
    /\ t.uid # 0 /\ t.uid = s.uid /\ Tracking \in s.fins => Tracking \in t.fins

(* Writing such a version keeps the invariant, while the worker goes on    *)
(* with the Service it has or ends.                                        *)
LEMMA SuccessorKeepsGuard ==
    ASSUME TypeOK, TypeOK', GuardInv, pc' = "idle" \/ (pc # "idle" /\ inst' = inst),
           Len(svcLog') = Len(svcLog) + 1,
           \A i \in 1..Len(svcLog) : svcLog'[i] = svcLog[i],
           Successor(svc, svc'), late' \subseteq late
    PROVE  Versions' /\ Sticky' /\ LateInv' /\ (pc = "create" => GuardedCreate')
<1> DEFINE n == Len(svcLog)
<1>1. /\ n \in Nat /\ n >= 1 /\ svc = svcLog[n] /\ svc' = svcLog'[n + 1]
      /\ \A i \in 1..n : svcLog[i] \in Service
      /\ svc' \in Service /\ inst \in Service
  BY Ends DEF svc, TypeOK
<1>2. \A i \in 1..n : svcLog[i].rv <= svc.rv
  <2> SUFFICES ASSUME NEW i \in 1..n PROVE svcLog[i].rv <= svcLog[n].rv
    BY <1>1
  <2>1. svcLog[i].rv \in Nat /\ svcLog[n].rv \in Nat /\ n \in 1..n
    BY <1>1 DEF Service
  <2>2. i # n => svcLog[i].rv < svcLog[n].rv
    BY <1>1, <2>1 DEF GuardInv, Versions
  <2> QED
    BY <2>1, <2>2
<1>3. Versions'
  <2>1. svc'.rv = svc.rv + 1 /\ svc.rv \in Nat /\ svc.uid <= svc.rv /\ svc.uid \in Nat
    <3>1. svcLog[n].uid <= svcLog[n].rv
      BY Indices DEF GuardInv, Versions
    <3>2. svc.rv \in Nat /\ svc.uid \in Nat
      BY Ends DEF Service
    <3> QED
      BY <1>1, <3>1, <3>2 DEF Successor
  <2>a. \A i \in 1..(n + 1) : i \in 1..n \/ i = n + 1
    BY <1>1
  <2>2. \A i, j \in 1..(n + 1) : i < j => svcLog'[i].rv < svcLog'[j].rv
    <3> SUFFICES ASSUME NEW i \in 1..(n + 1), NEW j \in 1..(n + 1), i < j
                 PROVE  svcLog'[i].rv < svcLog'[j].rv
      OBVIOUS
    <3>1. i \in 1..n /\ svcLog'[i] = svcLog[i] /\ svcLog[i].rv \in Nat
      BY <1>1 DEF Service
    <3>2. CASE j = n + 1
      BY <1>1, <1>2, <2>1, <3>1, <3>2
    <3>3. CASE j \in 1..n
      BY <3>1, <3>3 DEF GuardInv, Versions
    <3> QED
      BY <2>a, <3>2, <3>3
  <2>3. \A i \in 1..(n + 1) : /\ svcLog'[i].uid <= svcLog'[i].rv
                              /\ svcLog'[i].uid = 0 => ~svcLog'[i].lb
    <3> SUFFICES ASSUME NEW i \in 1..(n + 1)
                 PROVE  /\ svcLog'[i].uid <= svcLog'[i].rv
                        /\ svcLog'[i].uid = 0 => ~svcLog'[i].lb
      OBVIOUS
    <3>1. CASE i = n + 1
      BY <1>1, <2>1, <3>1 DEF Successor
    <3>2. CASE i \in 1..n
      BY <3>2 DEF GuardInv, Versions
    <3> QED
      BY <2>a, <3>1, <3>2
  <2>4. svcLog'[1] = svcLog[1]
    BY <1>1
  <2> QED
    BY <2>2, <2>3, <2>4 DEF GuardInv, Versions
<1>4. \A s \in Service : Keeps(s, svc) /\ s.uid <= svc.rv /\ (s.uid = 0 => ~s.lb)
                            => Keeps(s, svc')
  BY <1>1 DEF Keeps, Guarded, Wanted, Successor, Service
<1>5. \A i \in 1..n : Keeps(svcLog[i], svc')
  <2> SUFFICES ASSUME NEW i \in 1..n PROVE Keeps(svcLog[i], svc')
    OBVIOUS
  <2>1. svcLog[i] \in Service /\ svcLog[i].uid <= svc.rv /\ (svcLog[i].uid = 0 => ~svcLog[i].lb)
    <3>1. svcLog[i] \in Service /\ svc \in Service
      BY <1>1
    <3>2. svcLog[i].uid <= svcLog[i].rv /\ (svcLog[i].uid = 0 => ~svcLog[i].lb)
      BY <1>1 DEF GuardInv, Versions
    <3>3. svcLog[i].uid \in Nat /\ svcLog[i].rv \in Nat /\ svc.rv \in Nat
      BY <3>1 DEF Service
    <3> QED
      BY <1>2, <3>1, <3>2, <3>3
  <2>2. Keeps(svcLog[i], svc)
    <3>1. CASE i = n
      BY <1>1, <3>1 DEF svc, Keeps, Guarded
    <3>2. CASE i # n
      <4>1. i < n /\ n \in 1..Len(svcLog) /\ i \in 1..Len(svcLog) /\ svc = svcLog[n]
        BY <1>1, <3>2 DEF svc
      <4> QED
        BY <4>1 DEF GuardInv, Sticky
    <3> QED
      BY <3>1, <3>2
  <2> QED
    BY <1>4, <2>1, <2>2
<1>6. pc # "idle" => Keeps(inst, svc')
  <2> SUFFICES ASSUME pc # "idle" PROVE Keeps(inst, svc')
    OBVIOUS
  <2>1. Keeps(inst, svc)
    BY Indices DEF GuardInv, Sticky, svc
  <2>2. inst.uid # 0 /\ inst.uid <= inst.rv /\ inst.rv <= svcLog[1].rv /\ svcLog[1].rv <= svc.rv
    BY <1>2, Indices DEF GuardInv, Versions
  <2>3. inst.uid \in Nat /\ inst.rv \in Nat /\ svcLog[1].rv \in Nat /\ svc.rv \in Nat
    BY <1>1, Ends, Indices DEF Service
  <2>4. inst.uid <= svc.rv
    BY <2>2, <2>3
  <2> QED
    BY <1>1, <1>4, <2>1, <2>2, <2>4
<1>7. Sticky'
  <2>1. \A i \in 1..(n + 1) : i \in 1..n \/ i = n + 1
    BY <1>1
  <2>2. \A i, j \in 1..(n + 1) : i < j => Keeps(svcLog'[i], svcLog'[j])
    BY <1>1, <1>5, <2>1 DEF GuardInv, Sticky
  <2>3. pc' # "idle" => \A j \in 1..(n + 1) : Keeps(inst', svcLog'[j])
    BY <1>1, <1>6, <2>1 DEF GuardInv, Sticky
  <2> QED
    BY <2>2, <2>3 DEF Sticky
<1>8. LateInv'
  <2>1. svcLog'[1] = svcLog[1]
    BY <1>1
  <2> QED
    BY <2>1 DEF GuardInv, LateInv
<1>9. pc = "create" => GuardedCreate'
  <2> SUFFICES ASSUME pc = "create", pc' = "create", svc'.uid = inst.uid
               PROVE  Tracking \in svc'.fins
    BY DEF GuardedCreate
  <2>1. inst.uid # 0 /\ inst.uid <= inst.rv /\ inst.rv <= svcLog[1].rv /\ svcLog[1].rv <= svc.rv
    BY <1>2, Indices DEF GuardInv, Versions
  <2>2. inst.uid \in Nat /\ inst.rv \in Nat /\ svcLog[1].rv \in Nat /\ svc.rv \in Nat
    BY <1>1, Ends, Indices DEF Service
  <2>3. inst.uid # svc.rv + 1
    BY <2>1, <2>2
  <2>4. svc.uid = inst.uid
    BY <2>1, <2>3 DEF Successor
  <2> QED
    BY <2>1, <2>4 DEF GuardInv, GuardedCreate, Successor
<1> QED
  BY <1>3, <1>7, <1>8, <1>9

(* Whoever else writes the Service writes such a version.                  *)
LEMMA OthersSuccessor ==
    ASSUME TypeOK, GuardInv, Others
    PROVE  \/ UNCHANGED svcLog
           \/ /\ Len(svcLog') = Len(svcLog) + 1
              /\ \A i \in 1..Len(svcLog) : svcLog'[i] = svcLog[i]
              /\ Successor(svc, svc')
<1>0. svc \in Service /\ (svc.uid = 0 => ~svc.lb)
  BY Ends, Indices DEF GuardInv, Versions, svc
<1>1. ASSUME NEW s \in Service, PutService(s),
             s.uid \in {svc.uid, svc.rv + 1}, s.uid = 0 => ~s.lb,
             s.uid = svc.uid /\ Tracking \in svc.fins => Tracking \in s.fins
      PROVE  \/ UNCHANGED svcLog
             \/ /\ Len(svcLog') = Len(svcLog) + 1
                /\ \A i \in 1..Len(svcLog) : svcLog'[i] = svcLog[i]
                /\ Successor(svc, svc')
  <2>1. CASE s = svc
    BY <1>1, <2>1, PutServiceEffect
  <2>2. CASE s # svc
    <3>1. /\ Len(svcLog') = Len(svcLog) + 1
          /\ \A i \in 1..Len(svcLog) : svcLog'[i] = svcLog[i]
          /\ svc'.rv = svc.rv + 1
          /\ \/ s.fins = {} /\ svc'.uid = 0 /\ ~svc'.lb
             \/ svc'.uid = s.uid /\ svc'.fins = s.fins /\ svc'.lb = s.lb
      BY <1>1, <2>2, PutServiceEffect
    <3> QED
      BY <1>0, <1>1, <3>1 DEF Successor, Service
  <2> QED
    BY <2>1, <2>2
<1>2. CASE CreateService
  <2>1. PICK lb \in BOOLEAN, ann \in BOOLEAN, fins \in SUBSET OtherFinalizers :
           PutService([uid |-> svc.rv + 1, rv |-> 0, lb |-> lb, ann |-> ann,
                       fins |-> fins, del |-> FALSE])
    BY Zenon, <1>2 DEF CreateService
  <2> DEFINE s == [uid |-> svc.rv + 1, rv |-> 0, lb |-> lb, ann |-> ann,
                   fins |-> fins, del |-> FALSE]
  <2>2. s \in Service /\ s.uid = svc.rv + 1 /\ s.uid # 0 /\ svc.uid = 0
    BY <1>0, <1>2 DEF Service, Finalizers, CreateService
  <2> QED
    BY <1>1, <2>1, <2>2
<1>3. CASE EditService
  <2>1. PICK lb \in BOOLEAN, ann \in BOOLEAN : PutService([svc EXCEPT !.lb = lb, !.ann = ann])
    BY Zenon, <1>3 DEF EditService
  <2> DEFINE s == [svc EXCEPT !.lb = lb, !.ann = ann]
  <2>2. s \in Service /\ s.uid = svc.uid /\ s.fins = svc.fins /\ svc.uid # 0
    BY Zenon, <1>0, <1>3 DEF Service, EditService
  <2> QED
    BY Zenon, <1>1, <2>1, <2>2
<1>4. CASE DeleteService
  <2> DEFINE s == [svc EXCEPT !.del = TRUE]
  <2>1. s \in Service /\ s.uid = svc.uid /\ s.fins = svc.fins /\ svc.uid # 0
    BY Zenon, <1>0, <1>4 DEF Service, DeleteService
  <2> QED
    BY Zenon, <1>1, <1>4, <2>1 DEF DeleteService
<1>5. CASE DropOtherFinalizer
  <2>1. PICK f \in svc.fins \ {Tracking} : PutService([svc EXCEPT !.fins = @ \ {f}])
    BY Zenon, <1>5 DEF DropOtherFinalizer
  <2> DEFINE s == [svc EXCEPT !.fins = @ \ {f}]
  <2>2. /\ s \in Service /\ s.uid = svc.uid /\ s.fins = svc.fins \ {f} /\ s.lb = svc.lb
    BY <1>0 DEF Service
  <2> QED
    BY Zenon, <1>0, <1>1, <2>1, <2>2
<1>6. ASSUME NEW p \in Pods,
             \/ CreateOtherPod(p) \/ ChangeOwner(p) \/ FinishPod(p)
             \/ KillPod(p) \/ RemovePod(p) \/ CollectGarbage(p)
      PROVE  UNCHANGED svcLog
  BY <1>6 DEF CreateOtherPod, ChangeOwner, FinishPod, KillPod, RemovePod, CollectGarbage
<1> QED
  BY <1>2, <1>3, <1>4, <1>5, <1>6 DEF Others

(* Their writes keep the guard invariant.                                  *)
LEMMA OthersGuard ==
    ASSUME TypeOK, GuardInv, Others
    PROVE  GuardInv'
<1>1. TypeOK' /\ UNCHANGED <<pc, inst, late>>
  BY OutsideType, OthersWrite DEF Outside, manager, worker, locals
<1>2. CASE UNCHANGED svcLog
  BY <1>1, <1>2 DEF GuardInv, Versions, Sticky, Branches, LateInv, GuardedCreate, svc
<1>3. CASE /\ Len(svcLog') = Len(svcLog) + 1
           /\ \A i \in 1..Len(svcLog) : svcLog'[i] = svcLog[i]
           /\ Successor(svc, svc')
  <2>1. Versions' /\ Sticky' /\ LateInv' /\ (pc = "create" => GuardedCreate')
    BY <1>1, <1>3, SuccessorKeepsGuard
  <2> QED
    BY <1>1, <2>1 DEF GuardInv, Branches, GuardedCreate
<1> QED
  BY <1>2, <1>3, OthersSuccessor

(* A version not newer than the cached one, and equal to it if as new.     *)
Seen(s) == /\ s.rv <= svcLog[1].rv
           /\ s.rv = svcLog[1].rv => s = svcLog[1]

(* An Update that is accepted writes the version that was read, and then   *)
(* the cache is current.                                                   *)
LEMMA CurrentVersion ==
    ASSUME TypeOK, Versions, NEW s \in Service, Seen(s)
    PROVE  /\ s.rv <= svc.rv
           /\ s.rv = svc.rv => s = svc /\ Len(svcLog) = 1
<1>1. /\ Len(svcLog) \in Nat /\ Len(svcLog) >= 1
      /\ s.rv \in Nat /\ svcLog[1].rv \in Nat /\ svc.rv \in Nat
  BY Ends DEF TypeOK, Service, cachedSvc
<1>2. s.rv <= svcLog[1].rv
  BY DEF Seen
<1>3. CASE Len(svcLog) = 1
  BY <1>2, <1>3 DEF Seen, svc
<1>4. CASE 1 < Len(svcLog)
  <2>1. svcLog[1].rv < svc.rv
    BY <1>1, <1>4 DEF Versions, svc
  <2> QED
    BY <1>1, <1>2, <2>1
<1>5. \A n \in Nat : n >= 1 => n = 1 \/ 1 < n
  OBVIOUS
<1>6. Len(svcLog) = 1 \/ 1 < Len(svcLog)
  BY Zenon, <1>1, <1>5
<1> QED
  BY <1>3, <1>4, <1>6

(* So it is with the Service that Reconcile works on.                      *)
LEMMA CurrentInstance ==
    ASSUME TypeOK, GuardInv, pc # "idle"
    PROVE  /\ inst.rv <= svc.rv
           /\ inst.rv = svc.rv => inst = svc /\ Len(svcLog) = 1
<1>1. Versions /\ inst \in Service /\ Seen(inst)
  BY DEF GuardInv, Versions, Seen, TypeOK
<1> QED
  BY <1>1, CurrentVersion

(* And with the Service of a late request.                                 *)
LEMMA CurrentLate ==
    ASSUME TypeOK, GuardInv, NEW r \in late
    PROVE  /\ r.inst.rv <= svc.rv
           /\ r.inst.rv = svc.rv => r.inst = svc /\ Len(svcLog) = 1
<1>1. Versions /\ r.inst \in Service /\ Seen(r.inst)
  BY DEF GuardInv, LateInv, Seen, TypeOK, Request
<1> QED
  BY <1>1, CurrentVersion

(* Deliveries and restarts shorten the history, which keeps it.            *)
LEMMA ManagerGuard ==
    ASSUME TypeOK, GuardInv, Manager
    PROVE  GuardInv'
<1> USE DEF locals, worker
<1>0. /\ svcLog \in Seq(Service) /\ Len(svcLog) \in Nat /\ Len(svcLog) >= 1 /\ svc \in Service
      /\ \A i \in 1..Len(svcLog) : svcLog[i] \in Service
  BY Ends DEF TypeOK
<1>1. CASE DeliverService
  <2>1. /\ Len(svcLog) > 1 /\ Len(svcLog') = Len(svcLog) - 1
        /\ \A i \in 1..(Len(svcLog) - 1) : svcLog'[i] = svcLog[i + 1]
        /\ svc' = svc /\ UNCHANGED <<pc, inst>>
    BY <1>0, <1>1, LogTail DEF DeliverService, svc
  <2>2. inst \in Service /\ svcLog'[1] = svcLog[2] /\ svcLog[1].rv < svcLog[2].rv
    BY <1>0, <2>1 DEF TypeOK, GuardInv, Versions
  <2>3. Versions'
    <3>1. \A i, j \in 1..(Len(svcLog) - 1) : i < j => svcLog'[i].rv < svcLog'[j].rv
      BY <1>0, <2>1 DEF GuardInv, Versions
    <3>2. \A i \in 1..(Len(svcLog) - 1) : /\ svcLog'[i].uid <= svcLog'[i].rv
                                          /\ svcLog'[i].uid = 0 => ~svcLog'[i].lb
      BY <1>0, <2>1 DEF GuardInv, Versions
    <3>3. pc # "idle" => inst.rv <= svcLog[2].rv /\ inst.rv # svcLog[2].rv
      <4>1. pc # "idle" => inst.rv <= svcLog[1].rv
        BY DEF GuardInv, Versions
      <4>2. inst.rv \in Nat /\ svcLog[1].rv \in Nat /\ svcLog[2].rv \in Nat
        <5>1. 1 \in 1..Len(svcLog) /\ 2 \in 1..Len(svcLog)
          BY <1>0, <2>1
        <5> QED
          BY <1>0, <2>2, <5>1 DEF Service
      <4> QED
        BY <2>2, <4>1, <4>2
    <3> QED
      BY <2>1, <2>2, <3>1, <3>2, <3>3 DEF GuardInv, Versions
  <2>4. Sticky'
    <3>1. \A i, j \in 1..(Len(svcLog) - 1) : i < j => Keeps(svcLog[i + 1], svcLog[j + 1])
      BY <1>0 DEF GuardInv, Sticky
    <3>2. pc # "idle" => \A j \in 1..(Len(svcLog) - 1) : Keeps(inst, svcLog[j + 1])
      BY <1>0 DEF GuardInv, Sticky
    <3> QED
      BY <2>1, <3>1, <3>2 DEF Sticky
  <2>5. LateInv'
    <3> SUFFICES ASSUME NEW r \in late
                 PROVE  r.inst.rv <= svcLog[2].rv /\ r.inst.rv # svcLog[2].rv
      BY <1>1, <2>2 DEF DeliverService, GuardInv, LateInv
    <3>1. r.inst.rv <= svcLog[1].rv /\ r.inst.rv \in Nat
      BY DEF GuardInv, LateInv, TypeOK, Request, Service
    <3>2. svcLog[1].rv \in Nat /\ svcLog[2].rv \in Nat
      <4>1. 1 \in 1..Len(svcLog) /\ 2 \in 1..Len(svcLog)
        BY <1>0, <2>1
      <4> QED
        BY <1>0, <4>1 DEF Service
    <3> QED
      BY <2>2, <3>1, <3>2
  <2> QED
    BY <2>1, <2>3, <2>4, <2>5 DEF GuardInv, Branches, GuardedCreate
<1>2. CASE DeliverPod \/ RelistPods \/ BackoffExpires \/ Resync
  <2>1. UNCHANGED <<svcLog, pc, inst, late>>
    BY <1>2 DEF DeliverPod, RelistPods, BackoffExpires, Resync
  <2> QED
    BY <2>1 DEF GuardInv, Versions, Sticky, Branches, LateInv, GuardedCreate, svc
<1>3. CASE RelistServices
  <2>1. /\ Len(svcLog') = 1 /\ svcLog'[1] = svc /\ svc' = svc
        /\ UNCHANGED <<pc, inst, late>>
    BY <1>0, <1>3, LogSingle DEF RelistServices, svc
  <2>2. svc.uid <= svc.rv /\ (svc.uid = 0 => ~svc.lb)
    BY Indices DEF GuardInv, Versions, svc
  <2>3. \A i \in 1..Len(svcLog') : i = 1
    BY <2>1
  <2>4. Versions'
    <3>1. pc # "idle" => /\ inst.uid # 0 /\ inst.uid <= inst.rv
                         /\ inst.rv <= svc.rv /\ (inst.rv = svc.rv => inst = svc)
      BY CurrentInstance DEF GuardInv, Versions
    <3> QED
      BY <2>1, <2>2, <2>3, <3>1 DEF Versions
  <2>5. Sticky'
    <3>1. pc # "idle" => Keeps(inst, svc)
      BY Indices DEF GuardInv, Sticky, svc
    <3> QED
      BY <2>1, <2>3, <3>1 DEF Sticky
  <2>6. LateInv'
    BY <2>1, CurrentLate DEF GuardInv, LateInv
  <2> QED
    BY <2>1, <2>4, <2>5, <2>6 DEF GuardInv, Branches, GuardedCreate
<1>4. CASE Restart
  <2>1. Len(svcLog') = 1 /\ svcLog'[1] = svc /\ pc' = "idle"
    BY <1>0, <1>4, LogSingle DEF Restart, Reset
  <2>2. svc.uid <= svc.rv /\ (svc.uid = 0 => ~svc.lb)
    BY Indices DEF GuardInv, Versions, svc
  <2>3. \A i \in 1..Len(svcLog') : i = 1
    BY <2>1
  <2>4. Versions'
    BY <2>1, <2>2, <2>3 DEF Versions
  <2>5. Sticky'
    BY <2>1, <2>3 DEF Sticky
  <2>6. ASSUME NEW r \in InFlight
        PROVE  r.inst = inst /\ r.at = pc /\ pc # "idle"
    BY <2>6 DEF InFlight, AboutPods, AboutService
  <2>7. ASSUME NEW r \in InFlight
        PROVE  /\ r.inst.uid # 0 /\ r.inst.rv <= svc.rv
               /\ r.inst.rv = svc.rv => r.inst = svc
               /\ r.at = "evict" => ~Wanted(r.inst)
               /\ r.at = "guard" => Wanted(r.inst)
    BY <2>6, CurrentInstance DEF GuardInv, Versions, Branches
  <2>8. LateInv'
    <3> SUFFICES ASSUME NEW r \in late \union InFlight
                 PROVE  /\ r.inst.uid # 0 /\ r.inst.rv <= svc.rv
                        /\ r.inst.rv = svc.rv => r.inst = svc
                        /\ r.at = "evict" => ~Wanted(r.inst)
                        /\ r.at = "guard" => Wanted(r.inst)
      BY <1>4, <2>1 DEF Restart, LateInv
    <3>1. CASE r \in late
      BY <3>1, CurrentLate DEF GuardInv, LateInv
    <3> QED
      BY <2>7, <3>1
  <2> QED
    BY <2>1, <2>4, <2>5, <2>8 DEF GuardInv, Branches, GuardedCreate
<1> QED
  BY <1>1, <1>2, <1>3, <1>4 DEF Manager

(* Our finalizer may go from a version that is not exposed, when the cache *)
(* and the worker have seen that version.                                  *)
LEMMA RemovalKeepsGuard ==
    ASSUME TypeOK, TypeOK', GuardInv, Len(svcLog) = 1, ~Wanted(svc), svc.uid # 0,
           NEW s \in Service, s.uid = svc.uid, PutService(s), s # svc,
           late' \subseteq late,
           pc' = "idle" \/ (pc # "idle" /\ pc' = pc /\ inst' = inst /\ inst = svc)
    PROVE  Versions' /\ Sticky' /\ LateInv'
<1>1. svc = svcLog[1] /\ svc \in Service
  BY Ends DEF svc
<1>2. /\ Len(svcLog') = 2 /\ svcLog'[1] = svc /\ svcLog'[2] = svc'
      /\ svc'.rv = svc.rv + 1 /\ svc'.uid \in {0, svc.uid}
      /\ svc'.uid = 0 => ~svc'.lb
  <2>1. /\ Len(svcLog') = Len(svcLog) + 1
        /\ \A i \in 1..Len(svcLog) : svcLog'[i] = svcLog[i]
        /\ svc'.rv = svc.rv + 1
        /\ (svc'.uid = 0 /\ ~svc'.lb) \/ svc'.uid = s.uid
    BY PutServiceEffect
  <2>2. Len(svcLog') = 2 /\ svcLog'[1] = svc
    BY <1>1, <2>1
  <2> QED
    BY <2>1, <2>2 DEF svc
<1>3. svc.uid \in Nat /\ svc.rv \in Nat /\ svc.uid <= svc.rv
  BY <1>1 DEF Service, GuardInv, Versions
<1>4. \A i \in 1..2 : i = 1 \/ i = 2
  OBVIOUS
<1>5. Versions'
  <2>1. \A i, j \in 1..2 : i < j => i = 1 /\ j = 2
    OBVIOUS
  <2>2. svcLog'[1].rv < svcLog'[2].rv
    BY <1>2, <1>3
  <2>3. svc'.uid <= svc'.rv
    BY <1>2, <1>3
  <2>4. svc.uid # 0 /\ svc.uid <= svc.rv /\ svc.rv <= svc.rv
    BY <1>3
  <2> QED
    BY <1>2, <1>4, <2>1, <2>2, <2>3, <2>4 DEF Versions
<1>6. Sticky'
  <2>1. ~Guarded(svc)
    BY DEF Guarded
  <2>2. \A i, j \in 1..2 : i < j => i = 1 /\ j = 2
    OBVIOUS
  <2>3. Keeps(svcLog'[1], svcLog'[2]) /\ Keeps(svc, svcLog'[1]) /\ Keeps(svc, svcLog'[2])
    BY <1>2, <2>1 DEF Keeps
  <2> QED
    BY <1>2, <1>4, <2>2, <2>3 DEF Sticky
<1>7. LateInv'
  BY <1>1, <1>2 DEF GuardInv, LateInv
<1> QED
  BY <1>5, <1>6, <1>7

(* A late request keeps the guard invariant: whatever has changed since it *)
(* was made, the API server compares versions.                             *)
LEMMA LateGuard ==
    ASSUME TypeOK, GuardInv, LateRequest
    PROVE  GuardInv'
<1>1. TypeOK' /\ UNCHANGED <<pc, inst>> /\ late' \subseteq late
  BY OutsideType, LateWrite DEF Outside, locals
<1>2. CASE UNCHANGED svcLog
  BY <1>1, <1>2 DEF GuardInv, Versions, Sticky, Branches, LateInv, GuardedCreate, svc
<1>3. CASE svcLog' # svcLog
  <2> DEFINE S(r) == [r.inst EXCEPT !.fins = IF r.at = "guard" THEN @ \union {Tracking}
                                             ELSE @ \ {Tracking}]
  <2>1. PICK r \in late : /\ r.at \in {"evict", "guard"} /\ r.inst.rv = svc.rv
                          /\ PutService(S(r))
    BY Zenon, <1>3 DEF LateRequest, Serve
  <2>2. r.inst = svc /\ Len(svcLog) = 1 /\ svc.uid # 0 /\ svc \in Service
    BY <2>1, CurrentLate, Ends DEF GuardInv, LateInv
  <2>3. pc # "idle" => inst = svc
    <3> SUFFICES ASSUME pc # "idle" PROVE inst.rv = svc.rv
      BY CurrentInstance
    <3>1. r.inst.rv <= inst.rv /\ inst.rv <= svc.rv
      BY CurrentInstance DEF GuardInv, LateInv
    <3>2. inst.rv \in Nat /\ svc.rv \in Nat
      BY <2>2 DEF TypeOK, Service
    <3> QED
      BY <2>1, <3>1, <3>2
  <2>4. S(r) # svc
    BY <1>3, <2>1 DEF PutService
  <2>5. CASE r.at = "evict"
    <3>1. ~Wanted(svc)
      BY <2>2, <2>5 DEF GuardInv, LateInv
    <3>2. S(r) \in Service /\ S(r).uid = svc.uid
      BY <2>2, <2>5 DEF Service
    <3>3. Versions' /\ Sticky' /\ LateInv'
      BY Zenon, <1>1, <2>1, <2>2, <2>3, <2>4, <3>1, <3>2, RemovalKeepsGuard
    <3>4. pc # "create"
      BY <2>3, <3>1 DEF GuardInv, Branches
    <3> QED
      BY <1>1, <3>3, <3>4 DEF GuardInv, Branches, GuardedCreate
  <2>6. CASE r.at = "guard"
    <3>1. S(r) \in Service /\ S(r).uid = svc.uid /\ S(r).fins = svc.fins \union {Tracking}
      BY <2>2, <2>6 DEF Service, Finalizers
    <3>2. /\ Len(svcLog') = Len(svcLog) + 1
          /\ \A i \in 1..Len(svcLog) : svcLog'[i] = svcLog[i]
          /\ svc'.rv = svc.rv + 1
          /\ \/ S(r).fins = {}
             \/ svc'.uid = S(r).uid /\ svc'.fins = S(r).fins
      BY Zenon, <2>1, <2>4, <3>1, PutServiceEffect
    <3>3. svc'.uid = svc.uid /\ Tracking \in svc'.fins
      BY Zenon, <3>1, <3>2
    <3>4. Successor(svc, svc')
      BY <2>2, <3>2, <3>3 DEF Successor
    <3>5. Versions' /\ Sticky' /\ LateInv'
      BY <1>1, <3>2, <3>4, SuccessorKeepsGuard
    <3> QED
      BY <1>1, <3>3, <3>5 DEF GuardInv, Branches, GuardedCreate
  <2> QED
    BY <2>1, <2>5, <2>6
<1> QED
  BY <1>2, <1>3

(* A step of Reconcile keeps the guard invariant.                          *)
LEMMA ReconcileGuard ==
    ASSUME TypeOK, GuardInv, Reconcile
    PROVE  GuardInv'
<1> USE DEF locals
<1>0. /\ Len(svcLog) \in Nat /\ Len(svcLog) >= 1 /\ inst \in Service /\ svc \in Service
      /\ \A i \in 1..Len(svcLog) : svcLog[i] \in Service
      /\ TypeOK'
  BY Ends, ReconcileType DEF TypeOK
<1>l. UNCHANGED late
  BY Zenon DEF Reconcile, GetService, GetServiceFails, ListPods, ListPodsFails, CanAdoptOnce, Adopt,
         Claimed, Delete, Decide, RemoveFinalizer, AddFinalizer, CreatePod, KeepPods
<1>a. ASSUME UNCHANGED svcLog, pc' = "idle" PROVE GuardInv'
  BY <1>l, <1>a DEF GuardInv, Versions, Sticky, Branches, LateInv, GuardedCreate
<1>b. ASSUME UNCHANGED <<svcLog, inst>>, pc # "idle", pc' \in {"claim", "reap"} PROVE GuardInv'
  BY <1>l, <1>b DEF GuardInv, Versions, Sticky, Branches, LateInv, GuardedCreate
<1>1. CASE GetService
  <2>1. CASE cachedSvc.uid = 0
    BY <1>1, <2>1, <1>a DEF GetService
  <2>2. CASE cachedSvc.uid # 0
    <3>1. pc' = "list" /\ inst' = svcLog[1] /\ UNCHANGED svcLog
      BY <1>1, <2>2 DEF GetService, cachedSvc
    <3>2. Versions'
      <4>1. svcLog[1].rv \in Nat /\ svcLog[1].uid <= svcLog[1].rv /\ svcLog[1].uid # 0
        BY <2>2, Ends, Indices DEF GuardInv, Versions, Service, cachedSvc
      <4>2. svcLog[1].rv <= svcLog[1].rv
        BY <4>1
      <4> QED
        BY <3>1, <4>1, <4>2 DEF GuardInv, Versions
    <3>3. \A j \in 1..Len(svcLog) : Keeps(svcLog[1], svcLog[j])
      BY <1>0 DEF GuardInv, Sticky, Keeps, Guarded
    <3>4. Sticky'
      BY <3>1, <3>3 DEF GuardInv, Sticky
    <3>5. LateInv'
      BY <1>l, <3>1 DEF GuardInv, LateInv
    <3> QED
      BY <3>1, <3>2, <3>4, <3>5 DEF GuardInv, Branches, GuardedCreate
  <2> QED
    BY <2>1, <2>2
<1>2. CASE GetServiceFails \/ ListPodsFails \/ KeepPods
  BY <1>2, <1>a DEF GetServiceFails, ListPodsFails, KeepPods, Return, Reset
<1>3. CASE ListPods
  BY <1>3, <1>b DEF ListPods
<1>4. CASE CanAdoptOnce
  BY <1>4, <1>b DEF CanAdoptOnce
<1>5. ASSUME NEW p \in Pods, Adopt(p) PROVE GuardInv'
  BY <1>5, <1>b DEF Adopt
<1>6. CASE Claimed
  BY <1>6, <1>a, <1>b DEF Claimed, Return, Reset
<1>7. ASSUME NEW p \in Pods, Delete(p) PROVE GuardInv'
  BY <1>7 DEF Delete, GuardInv, Versions, Sticky, Branches, LateInv, GuardedCreate
<1>8. CASE Decide
  <2>1. CASE failed
    BY <1>8, <2>1, <1>a DEF Decide, Return, Reset
  <2>2. CASE ~failed
    <3>1. /\ UNCHANGED <<svcLog, inst>> /\ pc = "reap"
          /\ \/ ~Wanted(inst) /\ pc' = "evict"
             \/ Wanted(inst) /\ Tracking \in inst.fins /\ pc' = "create"
             \/ Wanted(inst) /\ Tracking \notin inst.fins /\ pc' = "guard"
      BY Zenon, <1>8, <2>2 DEF Decide
    <3>2. Versions' /\ Sticky' /\ LateInv'
      BY <1>l, <3>1 DEF GuardInv, Versions, Sticky, LateInv
    <3>3. Keeps(inst, svc)
      BY <3>1, Indices DEF GuardInv, Sticky, svc
    <3>4. Branches'
      BY <3>1 DEF Branches, Wanted
    <3>5. GuardedCreate'
      BY <3>1, <3>3 DEF GuardedCreate, Keeps, Guarded, svc
    <3> QED
      BY <3>2, <3>4, <3>5 DEF GuardInv
  <2> QED
    BY <2>1, <2>2
<1>9. CASE CreatePod
  BY <1>9, <1>a DEF CreatePod, Return, Reset
<1>10. CASE RemoveFinalizer
  <2> DEFINE s == [inst EXCEPT !.fins = @ \ {Tracking}]
  <2>1. pc = "evict" /\ pc' = "idle" /\ (\E ok : UpdateService(s, ok))
    BY <1>10 DEF RemoveFinalizer, Return, Reset
  <2>2. s \in Service /\ s.uid = inst.uid /\ s.lb = inst.lb
    BY <1>0 DEF Service
  <2>3. CASE UNCHANGED svcLog
    BY <2>1, <2>3, <1>a
  <2>4. CASE inst.rv = svc.rv /\ PutService(s) /\ s # svc
    <3>1. inst = svc /\ Len(svcLog) = 1 /\ ~Wanted(svc) /\ svc.uid # 0
      BY <2>1, <2>4, CurrentInstance DEF GuardInv, Branches, Versions
    <3>2. Versions' /\ Sticky' /\ LateInv'
      BY Zenon, <1>0, <1>l, <2>1, <2>2, <2>4, <3>1, RemovalKeepsGuard
    <3> QED
      BY <2>1, <3>2 DEF GuardInv, Branches, GuardedCreate
  <2> QED
    BY <2>1, <2>3, <2>4 DEF UpdateService, PutService
<1>11. CASE AddFinalizer
  <2> DEFINE s == [inst EXCEPT !.fins = @ \union {Tracking}]
  <2>1. PICK ok \in BOOLEAN :
           /\ UpdateService(s, ok)
           /\ \/ ok /\ pc' = "create" /\ inst' = inst
              \/ ~ok /\ pc' = "idle"
    BY <1>11 DEF AddFinalizer, Return, Reset
  <2>2. pc = "guard" /\ Wanted(inst) /\ Tracking \notin inst.fins /\ inst.uid # 0
    BY <1>11 DEF AddFinalizer, GuardInv, Branches, Versions
  <2>3. s \in Service /\ s.uid = inst.uid /\ s.fins = inst.fins \union {Tracking}
    BY <1>0 DEF Service, Finalizers
  <2>4. CASE UNCHANGED svcLog /\ ~ok
    BY <2>1, <2>4, <1>a
  <2>5. CASE inst.rv = svc.rv /\ PutService(s)
    <3>1. inst = svc /\ s # svc
      BY Zenon, <2>2, <2>3, <2>5, CurrentInstance
    <3>2. /\ Len(svcLog') = Len(svcLog) + 1
          /\ \A i \in 1..Len(svcLog) : svcLog'[i] = svcLog[i]
          /\ svc'.rv = svc.rv + 1
          /\ \/ s.fins = {}
             \/ svc'.uid = s.uid /\ svc'.fins = s.fins
      BY Zenon, <2>3, <2>5, <3>1, PutServiceEffect
    <3>3. svc'.uid = svc.uid /\ Tracking \in svc'.fins
      BY <2>3, <3>1, <3>2
    <3>4. Versions' /\ Sticky' /\ LateInv'
      <4>1. Successor(svc, svc')
        BY <2>2, <3>1, <3>2, <3>3 DEF Successor
      <4> QED
        BY <1>0, <1>l, <2>1, <2>2, <3>2, <4>1, SuccessorKeepsGuard
    <3> QED
      BY <2>1, <2>2, <3>3, <3>4 DEF GuardInv, Branches, GuardedCreate, Wanted
  <2> QED
    BY <2>1, <2>4, <2>5 DEF UpdateService, Lost
<1> QED
  BY <1>1, <1>2, <1>3, <1>4, <1>5, <1>6, <1>7, <1>8, <1>9, <1>10, <1>11 DEF Reconcile

(* The guard invariant holds initially.                                    *)
LEMMA InitGuard == Init => GuardInv
<1> SUFFICES ASSUME Init PROVE GuardInv
  OBVIOUS
<1>1. Len(svcLog) = 1 /\ svcLog[1] = NoService(0) /\ pc = "idle" /\ late = {}
  BY DEF Init
<1>2. \A i \in 1..Len(svcLog) : i = 1
  BY <1>1
<1>3. Versions
  <2>1. svcLog[1].uid = 0 /\ svcLog[1].rv = 0 /\ ~svcLog[1].lb
    <3>1. NoService(0).uid = 0 /\ NoService(0).rv = 0 /\ NoService(0).lb = FALSE
      BY DEF NoService
    <3> QED
      BY Zenon, <1>1, <3>1
  <2>2. \A i, j \in 1..Len(svcLog) : ~(i < j)
    BY <1>1
  <2> QED
    BY <1>1, <1>2, <2>1, <2>2 DEF Versions
<1> QED
  BY <1>1, <1>2, <1>3 DEF GuardInv, Sticky, Branches, LateInv, GuardedCreate

(* Every step keeps it.                                                    *)
LEMMA NextGuard == TypeOK /\ GuardInv /\ [Next]_vars => GuardInv'
<1> SUFFICES ASSUME TypeOK, GuardInv, [Next]_vars PROVE GuardInv'
  OBVIOUS
<1>1. CASE UNCHANGED vars
  BY <1>1 DEF vars, locals, GuardInv, Versions, Sticky, Branches, LateInv, GuardedCreate, svc
<1> QED
  BY <1>1, ReconcileGuard, ManagerGuard, LateGuard, OthersGuard DEF Next

(* The invariant behind the two theorems that follow.                      *)
LEMMA GuardInvariant == Spec => [](TypeOK /\ GuardInv)
  BY InitType, NextType, InitGuard, NextGuard, PTL DEF Spec

(* However the caches lag, whatever fails and whoever interferes, the      *)
(* reconciler creates a pod only for a Service the API server holds with   *)
(* our finalizer, or that is gone: AddFinalizer comes before CreatePod, and*)
(* no cached version from before a removal can be acted on after it.       *)
THEOREM FinalizerBeforePod == Spec => []GuardedCreate
<1>1. GuardInv => GuardedCreate
  BY DEF GuardInv
<1> QED
  BY <1>1, GuardInvariant, PTL

Finalized ==
    \/ svc.del /\ svc' = NoService(svc.rv + 1)
    \/ \E fins \in SUBSET Finalizers :
          /\ fins \ {Tracking} = svc.fins \ {Tracking}
          /\ svc' = [svc EXCEPT !.fins = fins, !.rv = @ + 1]

(* What one accepted Update writes.                                        *)
LEMMA PutFinalizers ==
    ASSUME TypeOK, NEW f \in SUBSET Finalizers, f \ {Tracking} = svc.fins \ {Tracking},
           PutService([svc EXCEPT !.fins = f]), svc' # svc
    PROVE  Finalized
<1> DEFINE s == [svc EXCEPT !.fins = f]
<1>1. svc \in Service
  BY Ends
<1>2. s \in Service /\ s.del = svc.del
  BY <1>1 DEF Service
<1>3. \/ s.del /\ svc' = NoService(svc.rv + 1)
      \/ svc' = [s EXCEPT !.rv = svc.rv + 1]
  BY Zenon, <1>2, PutServiceEffect DEF svc
<1>4. [s EXCEPT !.rv = svc.rv + 1] = [svc EXCEPT !.fins = f, !.rv = @ + 1]
  BY <1>1 DEF Service
<1> QED
  BY Zenon, <1>2, <1>3, <1>4 DEF Finalized

(* Whatever version was cached, and however late it arrives, an accepted   *)
(* Update of the Service changes our finalizer only.                       *)
LEMMA ReconcilerFinalizes ==
    ASSUME TypeOK, GuardInv, Reconcile \/ LateRequest, svc' # svc
    PROVE  Finalized
<1>0. svc.fins \union {Tracking} \in SUBSET Finalizers /\ svc.fins \ {Tracking} \in SUBSET Finalizers
  BY Ends DEF Service, Finalizers
<1>1. ASSUME PutService([svc EXCEPT !.fins = svc.fins \union {Tracking}]) PROVE Finalized
  BY <1>0, <1>1, PutFinalizers
<1>2. ASSUME PutService([svc EXCEPT !.fins = svc.fins \ {Tracking}]) PROVE Finalized
  BY <1>0, <1>2, PutFinalizers
<1>3. CASE Reconcile
  <2>1. RemoveFinalizer \/ AddFinalizer
    BY Zenon, <1>3 DEF Reconcile, GetService, GetServiceFails, ListPods, ListPodsFails, CanAdoptOnce,
                Adopt, Claimed, Delete, Decide, CreatePod, KeepPods, svc
  <2>2. ASSUME NEW s, NEW ok, UpdateService(s, ok) PROVE inst.rv = svc.rv /\ PutService(s)
    BY <2>2 DEF UpdateService, svc
  <2>3. CASE RemoveFinalizer
    <3>1. inst.rv = svc.rv /\ PutService([inst EXCEPT !.fins = inst.fins \ {Tracking}])
      BY <2>2, <2>3 DEF RemoveFinalizer
    <3>2. inst = svc
      BY <2>3, <3>1, CurrentInstance DEF RemoveFinalizer
    <3> QED
      BY <1>2, <3>1, <3>2
  <2>4. CASE AddFinalizer
    <3>1. inst.rv = svc.rv /\ PutService([inst EXCEPT !.fins = inst.fins \union {Tracking}])
      BY <2>2, <2>4 DEF AddFinalizer
    <3>2. inst = svc
      BY <2>4, <3>1, CurrentInstance DEF AddFinalizer
    <3> QED
      BY <1>1, <3>1, <3>2
  <2> QED
    BY <2>1, <2>3, <2>4
<1>4. CASE LateRequest
  <2>1. PICK r \in late : /\ r.inst.rv = svc.rv
                          /\ PutService([r.inst EXCEPT !.fins =
                                 IF r.at = "guard" THEN r.inst.fins \union {Tracking}
                                 ELSE r.inst.fins \ {Tracking}])
    BY Zenon, <1>4 DEF LateRequest, Serve, svc
  <2>2. r.inst = svc
    BY <2>1, CurrentLate
  <2>3. CASE r.at = "guard"
    BY <1>1, <2>1, <2>2, <2>3
  <2>4. CASE r.at # "guard"
    BY <1>2, <2>1, <2>2, <2>4
  <2> QED
    BY <2>3, <2>4
<1> QED
  BY <1>3, <1>4

(* The full Updates of the Service lose nobody's writes: whatever version  *)
(* was cached, and however late it arrives, an accepted one changes our    *)
(* finalizer only.                                                         *)
THEOREM NoLostUpdate == Spec => OnlyFinalizerWritten
<1> DEFINE A == (Reconcile \/ LateRequest) /\ svc' # svc => Finalized
<1>1. TypeOK /\ GuardInv => A
  BY ReconcilerFinalizes
<1>2. TypeOK /\ GuardInv /\ [Next]_vars => [A]_vars
  BY <1>1
<1>3. OnlyFinalizerWritten <=> [][A]_vars
  BY DEF OnlyFinalizerWritten, Finalized
<1> HIDE DEF A
<1> QED
  BY <1>2, <1>3, GuardInvariant, PTL DEF Spec

-----------------------------------------------------------------------------
(* The finalizer protocol.                                                 *)

(* Deliveries, lists, delays and restarts leave the stored Service alone.  *)
LEMMA ManagerKeepsService ==
    ASSUME TypeOK, Manager
    PROVE  svc' = svc
<1>0. svcLog \in Seq(Service) /\ svc \in Service /\ Len(svcLog) \in Nat
  BY Ends DEF TypeOK
<1>1. CASE DeliverService
  BY <1>0, <1>1, LogTail DEF DeliverService, svc
<1>2. CASE svcLog' = <<svc>>
  BY <1>0, <1>2, LogSingle DEF svc
<1>3. CASE UNCHANGED svcLog
  BY <1>3 DEF svc
<1> QED
  BY Zenon, <1>1, <1>2, <1>3 DEF Manager, DeliverPod, RelistServices, RelistPods, BackoffExpires, Resync,
                                 Restart

(* One step of the protocol for each kind of write.                        *)
LEMMA ProtocolWrite ==
    ASSUME TypeOK, NEW s \in Service, PutService(s), svc' # svc
    PROVE  /\ s # svc /\ svc \in Service
           /\ \/ /\ s.del /\ s.fins = {}
                 /\ svc'.uid = 0 /\ ~svc'.lb /\ svc'.fins = {} /\ ~svc'.del
              \/ /\ svc'.uid = s.uid /\ svc'.fins = s.fins
                 /\ svc'.lb = s.lb /\ svc'.ann = s.ann /\ svc'.del = s.del
<1>1. svc \in Service /\ s # svc
  BY Zenon, Ends, PutServiceEffect DEF svc
<1>2. ASSUME NEW rv, svc' = NoService(rv)
      PROVE  svc'.uid = 0 /\ ~svc'.lb /\ svc'.fins = {} /\ ~svc'.del
  BY <1>2 DEF NoService
<1> QED
  BY Zenon, <1>1, <1>2, PutServiceEffect

(* The reconciler's writes, on time or late, guard or let go.              *)
LEMMA ReconcilerProtocol ==
    ASSUME TypeOK, GuardInv, Reconcile \/ LateRequest, svc' # svc
    PROVE  Protocol!Guard \/ Protocol!LetGo
<1>0. svc \in Service
  BY Ends
<1>1. ASSUME Wanted(svc), PutService([svc EXCEPT !.fins = svc.fins \union {Tracking}])
      PROVE  Protocol!Guard
  <2> DEFINE s == [svc EXCEPT !.fins = svc.fins \union {Tracking}]
  <2>1. /\ s \in Service /\ s.fins = svc.fins \union {Tracking}
        /\ s.uid = svc.uid /\ s.lb = svc.lb /\ s.ann = svc.ann /\ s.del = svc.del
    BY <1>0 DEF Service, Finalizers
  <2>2. s # svc /\ Tracking \notin svc.fins
    <3>1. s # svc
      BY <1>1, <2>1, ProtocolWrite
    <3>2. ASSUME Tracking \in svc.fins PROVE s = svc
      <4>1. svc.fins \union {Tracking} = svc.fins
        BY <3>2
      <4> QED
        BY <1>0, <4>1 DEF Service
    <3> QED
      BY <3>1, <3>2
  <2>3. /\ svc'.uid = svc.uid /\ Tracking \in svc'.fins
        /\ svc'.lb = svc.lb /\ svc'.ann = svc.ann /\ svc'.del = svc.del
    <3> HIDE DEF s
    <3> QED
      BY Zenon, <1>1, <2>1, ProtocolWrite DEF Wanted, s
  <2> QED
    BY <1>1, <2>2, <2>3 DEF Wanted, Protocol!Guard
<1>2. ASSUME ~Wanted(svc), PutService([svc EXCEPT !.fins = svc.fins \ {Tracking}])
      PROVE  Protocol!LetGo
  <2> DEFINE s == [svc EXCEPT !.fins = svc.fins \ {Tracking}]
  <2>1. /\ s \in Service /\ s.fins = svc.fins \ {Tracking}
        /\ s.uid = svc.uid /\ s.lb = svc.lb /\ s.ann = svc.ann /\ s.del = svc.del
    BY <1>0 DEF Service, Finalizers
  <2>2. Tracking \in svc.fins
    <3>1. s # svc
      BY <1>2, <2>1, ProtocolWrite
    <3>2. ASSUME Tracking \notin svc.fins PROVE s = svc
      <4>1. svc.fins \ {Tracking} = svc.fins
        BY <3>2
      <4> QED
        BY <1>0, <4>1 DEF Service
    <3> QED
      BY <3>1, <3>2
  <2>3. \/ /\ svc.del
           /\ svc'.uid = 0 /\ ~svc'.lb /\ svc'.fins = {} /\ ~svc'.del
        \/ /\ svc'.uid = svc.uid /\ Tracking \notin svc'.fins
           /\ svc'.lb = svc.lb /\ svc'.ann = svc.ann /\ svc'.del = svc.del
    <3> HIDE DEF s
    <3> QED
      BY Zenon, <1>2, <2>1, ProtocolWrite DEF s
  <2> QED
    BY <1>2, <2>2, <2>3 DEF Wanted, Protocol!LetGo, Protocol!Absent
<1>3. CASE Reconcile
  <2>1. RemoveFinalizer \/ AddFinalizer
    BY Zenon, <1>3 DEF Reconcile, GetService, GetServiceFails, ListPods, ListPodsFails, CanAdoptOnce,
                Adopt, Claimed, Delete, Decide, CreatePod, KeepPods, svc
  <2>2. ASSUME NEW s, NEW ok, UpdateService(s, ok) PROVE inst.rv = svc.rv /\ PutService(s)
    BY <2>2 DEF UpdateService, svc
  <2>3. CASE RemoveFinalizer
    <3>1. inst.rv = svc.rv /\ PutService([inst EXCEPT !.fins = inst.fins \ {Tracking}])
      BY <2>2, <2>3 DEF RemoveFinalizer
    <3>2. inst = svc /\ ~Wanted(inst)
      BY <2>3, <3>1, CurrentInstance DEF RemoveFinalizer, GuardInv, Branches
    <3> QED
      BY <1>2, <3>1, <3>2
  <2>4. CASE AddFinalizer
    <3>1. inst.rv = svc.rv /\ PutService([inst EXCEPT !.fins = inst.fins \union {Tracking}])
      BY <2>2, <2>4 DEF AddFinalizer
    <3>2. inst = svc /\ Wanted(inst)
      BY <2>4, <3>1, CurrentInstance DEF AddFinalizer, GuardInv, Branches
    <3> QED
      BY <1>1, <3>1, <3>2
  <2> QED
    BY <2>1, <2>3, <2>4
<1>4. CASE LateRequest
  <2>1. PICK r \in late : /\ r.inst.rv = svc.rv /\ r.at \in {"evict", "guard"}
                          /\ PutService([r.inst EXCEPT !.fins =
                                 IF r.at = "guard" THEN r.inst.fins \union {Tracking}
                                 ELSE r.inst.fins \ {Tracking}])
    BY Zenon, <1>4 DEF LateRequest, Serve, svc
  <2>2. r.inst = svc
    BY <2>1, CurrentLate
  <2>3. CASE r.at = "guard"
    BY <1>1, <2>1, <2>2, <2>3 DEF GuardInv, LateInv
  <2>4. CASE r.at = "evict"
    BY <1>2, <2>1, <2>2, <2>4 DEF GuardInv, LateInv
  <2> QED
    BY <2>1, <2>3, <2>4
<1> QED
  BY <1>3, <1>4

(* The writes of everybody else are the users' steps, or change nothing    *)
(* the users see of the finalizer.                                         *)
LEMMA OthersProtocol ==
    ASSUME TypeOK, Others, svc' # svc
    PROVE  Protocol!Next \/ UNCHANGED Protocol!vars
<1> USE DEF Protocol!Next, Protocol!vars
<1>0. svc \in Service
  BY Ends
<1>1. CASE CreateService
  <2>1. PICK lb \in BOOLEAN, ann \in BOOLEAN, fins \in SUBSET OtherFinalizers :
           PutService([uid |-> svc.rv + 1, rv |-> 0, lb |-> lb, ann |-> ann,
                       fins |-> fins, del |-> FALSE])
    BY Zenon, <1>1 DEF CreateService
  <2> DEFINE s == [uid |-> svc.rv + 1, rv |-> 0, lb |-> lb, ann |-> ann,
                   fins |-> fins, del |-> FALSE]
  <2>2. /\ s \in Service /\ s.uid = svc.rv + 1 /\ s.uid \in Nat \ {0}
        /\ s.del = FALSE /\ Tracking \notin s.fins
    BY <1>0, ServiceAssumption DEF Service, Finalizers
  <2>3. svc'.uid \in Nat \ {0} /\ Tracking \notin svc'.fins /\ ~svc'.del
    <3> HIDE DEF s
    <3> QED
      BY <2>1, <2>2, ProtocolWrite DEF s
  <2>4. svc.uid = 0
    BY <1>1 DEF CreateService
  <2> QED
    BY <2>3, <2>4 DEF Protocol!Create
<1>2. CASE EditService
  <2>1. PICK lb \in BOOLEAN, ann \in BOOLEAN : PutService([svc EXCEPT !.lb = lb, !.ann = ann])
    BY Zenon, <1>2 DEF EditService
  <2> DEFINE s == [svc EXCEPT !.lb = lb, !.ann = ann]
  <2>2. s \in Service /\ s.uid = svc.uid /\ s.fins = svc.fins /\ s.del = svc.del
    BY Zenon, <1>0 DEF Service
  <2>3. \/ svc.fins = {} /\ svc'.uid = 0 /\ ~svc'.lb /\ svc'.fins = {} /\ ~svc'.del
        \/ svc'.uid = svc.uid /\ svc'.fins = svc.fins /\ svc'.del = svc.del
    <3> HIDE DEF s
    <3> QED
      BY Zenon, <2>1, <2>2, ProtocolWrite DEF s
  <2>4. svc.uid # 0
    BY <1>2 DEF EditService
  <2>5. CASE svc.fins = {} /\ svc'.uid = 0 /\ ~svc'.lb /\ svc'.fins = {} /\ ~svc'.del
    BY <2>5 DEF Protocol!Vanish, Protocol!Absent
  <2>6. CASE svc'.uid = svc.uid /\ svc'.fins = svc.fins /\ svc'.del = svc.del
    <3>1. CASE svc.del
      BY <2>6, <3>1
    <3>2. CASE ~svc.del
      BY <2>4, <2>6, <3>2 DEF Protocol!Edit
    <3> QED
      BY <3>1, <3>2
  <2> QED
    BY <2>3, <2>5, <2>6
<1>3. CASE DeleteService
  <2> DEFINE s == [svc EXCEPT !.del = TRUE]
  <2>1. s \in Service /\ s.uid = svc.uid /\ s.fins = svc.fins /\ s.del = TRUE
    BY Zenon, <1>0 DEF Service
  <2>2. \/ svc.fins = {} /\ svc'.uid = 0 /\ ~svc'.lb /\ svc'.fins = {} /\ ~svc'.del
        \/ svc'.uid = svc.uid /\ svc'.fins = svc.fins /\ svc'.del
    <3>1. PutService(s)
      BY Zenon, <1>3 DEF DeleteService
    <3> HIDE DEF s
    <3> QED
      BY Zenon, <2>1, <3>1, ProtocolWrite DEF s
  <2>3. svc.uid # 0 /\ ~svc.del
    BY <1>3 DEF DeleteService
  <2>4. CASE svc.fins = {} /\ svc'.uid = 0 /\ ~svc'.lb /\ svc'.fins = {} /\ ~svc'.del
    BY <2>4 DEF Protocol!Vanish, Protocol!Absent
  <2>5. CASE svc'.uid = svc.uid /\ svc'.fins = svc.fins /\ svc'.del
    BY Zenon, <2>3, <2>5 DEF Protocol!Delete
  <2> QED
    BY <2>2, <2>4, <2>5
<1>4. CASE DropOtherFinalizer
  <2>1. PICK f \in svc.fins \ {Tracking} : PutService([svc EXCEPT !.fins = @ \ {f}])
    BY Zenon, <1>4 DEF DropOtherFinalizer
  <2> DEFINE s == [svc EXCEPT !.fins = @ \ {f}]
  <2>2. /\ s \in Service /\ s.uid = svc.uid /\ s.fins = svc.fins \ {f}
        /\ s.lb = svc.lb /\ s.ann = svc.ann /\ s.del = svc.del
    BY <1>0 DEF Service
  <2>3. \/ Tracking \notin svc.fins /\ svc'.uid = 0 /\ ~svc'.lb /\ svc'.fins = {} /\ ~svc'.del
        \/ /\ svc'.uid = svc.uid /\ svc'.fins = svc.fins \ {f}
           /\ svc'.lb = svc.lb /\ svc'.ann = svc.ann /\ svc'.del = svc.del
    <3> HIDE DEF s
    <3> QED
      BY Zenon, <2>1, <2>2, ProtocolWrite DEF s
  <2>4. CASE Tracking \notin svc.fins /\ svc'.uid = 0 /\ ~svc'.lb /\ svc'.fins = {} /\ ~svc'.del
    BY <2>4 DEF Protocol!Vanish, Protocol!Absent
  <2>5. CASE /\ svc'.uid = svc.uid /\ svc'.fins = svc.fins \ {f}
             /\ svc'.lb = svc.lb /\ svc'.ann = svc.ann /\ svc'.del = svc.del
    <3>1. Tracking \in svc'.fins <=> Tracking \in svc.fins
      BY <2>5
    <3> QED
      BY <2>5, <3>1
  <2> QED
    BY <2>3, <2>4, <2>5
<1>5. ASSUME NEW p \in Pods,
             \/ CreateOtherPod(p) \/ ChangeOwner(p) \/ FinishPod(p)
             \/ KillPod(p) \/ RemovePod(p) \/ CollectGarbage(p)
      PROVE  FALSE
  BY <1>5 DEF CreateOtherPod, ChangeOwner, FinishPod, KillPod, RemovePod, CollectGarbage, svc
<1> QED
  BY <1>1, <1>2, <1>3, <1>4, <1>5 DEF Others

(* The finalizer follows its protocol: however stale the caches and however*)
(* many processes have died, the reconciler guards a Service only while it *)
(* is to be exposed and lets go of it only while it is not.                *)
THEOREM FinalizerFollowsProtocol == Spec => ImplementsProtocol
<1>1. Init => Protocol!Init
  BY DEF Init, NoService, svc, Protocol!Init, Protocol!Absent
<1>2. TypeOK /\ GuardInv /\ [Next]_vars => [Protocol!Next]_(Protocol!vars)
  <2> SUFFICES ASSUME TypeOK, GuardInv, [Next]_vars
               PROVE  Protocol!Next \/ UNCHANGED Protocol!vars
    BY DEF Protocol!vars
  <2>1. CASE svc' = svc
    BY <2>1 DEF Protocol!vars
  <2>2. CASE svc' # svc
    <3>1. Next
      BY <2>2 DEF vars, svc
    <3>2. Reconcile \/ LateRequest \/ Others
      BY <2>2, <3>1, ManagerKeepsService DEF Next
    <3> QED
      BY Zenon, <2>2, <3>2, ReconcilerProtocol, OthersProtocol DEF Protocol!Next
  <2> QED
    BY <2>1, <2>2
<1> QED
  BY <1>1, <1>2, GuardInvariant, PTL DEF Spec, ImplementsProtocol, Protocol!Spec

-----------------------------------------------------------------------------
(* No wake-up is lost.                                                     *)

(* Only a list that hides a change uses up a gap.                          *)
LEMMA GapSpent ==
    ASSUME TypeOK, Next, ~RelistPods
    PROVE  fuel'["gap"] = fuel["gap"]
<1>1. ASSUME NEW d \in {"edit", "pod", "fault", "crash"}, Spend(d)
      PROVE  fuel'["gap"] = fuel["gap"]
  BY <1>1, SpendType DEF Disturbances
<1>2. CASE Reconcile
  <2>1. ASSUME NEW s, NEW ok, UpdateService(s, ok) PROVE fuel'["gap"] = fuel["gap"]
    BY <1>1, <2>1 DEF UpdateService, Answer, Lost
  <2>2. ASSUME NEW p \in Pods, Adopt(p) \/ Delete(p) PROVE fuel'["gap"] = fuel["gap"]
    BY <1>1, <2>2 DEF Adopt, Delete, UpdateOwner, DeletePod, Answer, Lost
  <2>3. CASE RemoveFinalizer \/ AddFinalizer
    BY Zenon, <2>1, <2>3 DEF RemoveFinalizer, AddFinalizer
  <2>4. CASE CreatePod
    BY <1>1, <2>4 DEF CreatePod, Answer, Lost
  <2>5. CASE GetServiceFails \/ ListPodsFails \/ CanAdoptOnce
    BY Zenon, <1>1, <2>5 DEF GetServiceFails, ListPodsFails, CanAdoptOnce
  <2>6. CASE GetService \/ ListPods \/ Claimed \/ Decide \/ KeepPods
    BY Zenon, <2>6 DEF GetService, ListPods, Claimed, Decide, KeepPods
  <2> QED
    BY <1>2, <2>2, <2>3, <2>4, <2>5, <2>6 DEF Reconcile
<1>3. CASE Manager
  BY Zenon, <1>1, <1>3 DEF Manager, DeliverService, DeliverPod, RelistServices, BackoffExpires, Resync, Restart
<1>4. CASE LateRequest
  BY <1>4 DEF LateRequest
<1>5. CASE Others
  BY Zenon, <1>1, <1>5 DEF Others, CreateService, EditService, DeleteService, DropOtherFinalizer,
                    CreateOtherPod, ChangeOwner, FinishPod, KillPod, RemovePod, CollectGarbage
<1> QED
  BY <1>2, <1>3, <1>4, <1>5 DEF Next

(* Gaps only become fewer.                                                 *)
LEMMA NextBudget == TypeOK /\ Budget /\ [Next]_vars => Budget' /\ (NoGap' => NoGap)
<1> SUFFICES ASSUME TypeOK, Budget, [Next]_vars PROVE Budget' /\ (NoGap' => NoGap)
  OBVIOUS
<1>0. fuel["gap"] \in Nat /\ Fuel["gap"] \in Nat /\ "gap" \in Disturbances
  BY ServiceAssumption DEF TypeOK, Disturbances
<1>1. CASE fuel'["gap"] = fuel["gap"]
  BY <1>1 DEF Budget, NoGap
<1>2. CASE fuel'["gap"] = fuel["gap"] - 1
  BY <1>0, <1>2 DEF Budget, NoGap
<1>3. CASE RelistPods
  <2>1. UNCHANGED fuel \/ Spend("gap")
    BY <1>3 DEF RelistPods
  <2>2. Spend("gap") => fuel'["gap"] = fuel["gap"] - 1
    BY <1>0, SpendType
  <2> QED
    BY <1>1, <1>2, <2>1, <2>2
<1> QED
  BY <1>1, <1>3, GapSpent DEF vars

(* Changes that enqueue nothing add up to a change that enqueues nothing.  *)
LEMMA EnqueuesTransitive ==
    ASSUME NEW a, NEW b, NEW c, ~Enqueues(a, b), ~Enqueues(b, c)
    PROVE  ~Enqueues(a, c)
  BY DEF Enqueues

(* A write leaves the earlier part of the pods' history as quiet as it was.*)
LEMMA QuietAppend ==
    ASSUME TypeOK, Len(podLog') = Len(podLog) + 1,
           \A i \in 1..Len(podLog) : podLog'[i] = podLog[i],
           NEW k \in 1..Len(podLog), QuietFrom(k)'
    PROVE  QuietFrom(k) /\ ~Enqueues(pods, pods')
<1>1. Len(podLog) \in Nat /\ Len(podLog) >= 1
  BY Ends
<1>2. \A i \in k..Len(podLog) : ~Enqueues(podLog'[i], podLog'[i + 1])
  BY <1>1 DEF QuietFrom
<1>3. ~Enqueues(podLog'[Len(podLog)], podLog'[Len(podLog) + 1])
  BY <1>1, <1>2
<1>4. \A i \in k..(Len(podLog) - 1) : ~Enqueues(podLog[i], podLog[i + 1])
  <2> SUFFICES ASSUME NEW i \in k..(Len(podLog) - 1) PROVE ~Enqueues(podLog[i], podLog[i + 1])
    OBVIOUS
  <2>1. i \in k..Len(podLog) /\ i \in 1..Len(podLog) /\ i + 1 \in 1..Len(podLog)
    BY <1>1
  <2> QED
    BY <1>2, <2>1
<1> QED
  BY <1>1, <1>3, <1>4 DEF QuietFrom, pods

(* Quiet stretches of the pods' history keep the pods of Services: writes. *)
LEMMA AppendKeepsQuiet ==
    ASSUME TypeOK, QuietKeepsOwned, Len(podLog') = Len(podLog) + 1,
           \A i \in 1..Len(podLog) : podLog'[i] = podLog[i]
    PROVE  QuietKeepsOwned'
<1>1. Len(podLog) \in Nat /\ Len(podLog) >= 1
  BY Ends
<1> SUFFICES ASSUME NEW k \in 1..(Len(podLog) + 1), QuietFrom(k)'
             PROVE  ~Enqueues(podLog'[k], pods')
  BY DEF QuietKeepsOwned
<1>2. CASE k = Len(podLog) + 1
  BY <1>2 DEF pods, Enqueues
<1>3. CASE k \in 1..Len(podLog)
  <2>1. QuietFrom(k) /\ ~Enqueues(pods, pods')
    BY <1>3, QuietAppend
  <2>2. ~Enqueues(podLog[k], pods)
    BY <1>3, <2>1 DEF QuietKeepsOwned
  <2> QED
    BY <1>3, <2>1, <2>2, EnqueuesTransitive
<1>4. k \in 1..Len(podLog) \/ k = Len(podLog) + 1
  BY <1>1
<1> QED
  BY <1>2, <1>3, <1>4

(* The same for deliveries.                                                *)
LEMMA TailKeepsQuiet ==
    ASSUME TypeOK, QuietKeepsOwned, Len(podLog) > 1, podLog' = Tail(podLog)
    PROVE  /\ QuietKeepsOwned' /\ pods' = pods
           /\ QuietFrom(1)' /\ ~Enqueues(podLog[1], podLog[2]) => QuietFrom(1)
<1>1. /\ Len(podLog) \in Nat /\ Len(podLog') = Len(podLog) - 1
      /\ \A i \in 1..(Len(podLog) - 1) : podLog'[i] = podLog[i + 1]
      /\ pods' = pods
  BY Ends, LogTail DEF TypeOK, pods
<1>2. \A k \in 1..(Len(podLog) - 1) : QuietFrom(k)' => QuietFrom(k + 1)
  <2> SUFFICES ASSUME NEW k \in 1..(Len(podLog) - 1), QuietFrom(k)',
                      NEW i \in (k + 1)..(Len(podLog) - 1)
               PROVE  ~Enqueues(podLog[i], podLog[i + 1])
    BY Zenon DEF QuietFrom
  <2>1. /\ i - 1 \in k..(Len(podLog') - 1) /\ (i - 1) + 1 = i
        /\ i - 1 \in 1..(Len(podLog) - 1) /\ i \in 1..(Len(podLog) - 1)
    BY <1>1
  <2>2. ~Enqueues(podLog'[i - 1], podLog'[(i - 1) + 1])
    BY <2>1 DEF QuietFrom
  <2>3. podLog'[i - 1] = podLog[i] /\ podLog'[(i - 1) + 1] = podLog[i + 1]
    BY <1>1, <2>1
  <2> QED
    BY <2>2, <2>3
<1>3. QuietKeepsOwned'
  <2> SUFFICES ASSUME NEW k \in 1..(Len(podLog) - 1), QuietFrom(k)'
               PROVE  ~Enqueues(podLog[k + 1], pods)
    BY <1>1 DEF QuietKeepsOwned
  <2>1. k + 1 \in 1..Len(podLog)
    BY <1>1
  <2>2. QuietFrom(k + 1)
    BY <1>2
  <2> QED
    BY <2>1, <2>2 DEF QuietKeepsOwned
<1>4. QuietFrom(1)' /\ ~Enqueues(podLog[1], podLog[2]) => QuietFrom(1)
  <2> SUFFICES ASSUME QuietFrom(1)', ~Enqueues(podLog[1], podLog[2]),
                      NEW i \in 1..(Len(podLog) - 1)
               PROVE  ~Enqueues(podLog[i], podLog[i + 1])
    BY DEF QuietFrom
  <2>1. QuietFrom(2)
    BY <1>1, <1>2
  <2>2. CASE i = 1
    BY <2>2
  <2>3. CASE i \in 2..(Len(podLog) - 1)
    BY <2>1, <2>3 DEF QuietFrom
  <2> QED
    BY <1>1, <2>2, <2>3
<1> QED
  BY <1>1, <1>3, <1>4

(* One snapshot of the pods is a quiet history.                            *)
LEMMA SingleIsQuiet ==
    ASSUME Len(podLog) = 1
    PROVE  QuietKeepsOwned
<1>1. \A k \in 1..1 : k = 1
  OBVIOUS
<1> QED
  BY <1>1 DEF QuietKeepsOwned, pods, Enqueues

Appended == /\ Len(podLog') = Len(podLog) + 1
            /\ \A i \in 1..Len(podLog) : podLog'[i] = podLog[i]

(* A state that is calm after a step that delivers nothing was calm before.*)
LEMMA CalmBefore ==
    ASSUME TypeOK, UNCHANGED <<svcLog, queued>>, UNCHANGED podLog \/ Appended, Calm',
           NoGap' => NoGap
    PROVE  Calm /\ ~Enqueues(pods, pods')
<1>1. CASE UNCHANGED podLog
  BY <1>1 DEF Calm, QuietFrom, Enqueues, pods, svc
<1>2. CASE Appended
  <2>1. 1 \in 1..Len(podLog)
    BY Indices
  <2>2. QuietFrom(1) /\ ~Enqueues(pods, pods')
    BY <1>2, <2>1, QuietAppend DEF Appended, Calm
  <2> QED
    BY <2>2 DEF Calm, svc
<1> QED
  BY <1>1, <1>2

(* A change that enqueues nothing changes no pod of the Service.           *)
LEMMA OwnedKept ==
    ASSUME TypeOK, TypeOK', svc' = svc, ~Enqueues(pods, pods')
    PROVE  /\ Running' = Running /\ Finished' = Finished
           /\ \A p \in Pods : Mine(pods[p])' => Mine(pods[p]) /\ pods'[p] = pods[p]
<1>1. svc.uid \in Nat
  BY Ends DEF Service
<1>2. \A p \in Pods : pods[p].owner = svc.uid \/ pods'[p].owner = svc.uid => pods'[p] = pods[p]
  BY <1>1 DEF Enqueues
<1>3. \A p \in Pods : (Mine(pods[p])' <=> Mine(pods[p])) /\ (Mine(pods[p]) => pods'[p] = pods[p])
  BY <1>2 DEF Mine, Selected
<1>4. Running' = Running
  BY <1>3 DEF Running
<1>5. Finished' = Finished
  BY <1>3 DEF Finished
<1> QED
  BY Zenon, <1>3, <1>4, <1>5

(* Nothing the calm invariant says depends on a step that neither moves    *)
(* the worker nor touches a pod of the Service.                            *)
LEMMA KeepsCalm ==
    ASSUME TypeOK, TypeOK', CalmInv, svc' = svc, UNCHANGED <<backoff, pc, locals>>,
           Calm' => Calm /\ ~Enqueues(pods, pods')
    PROVE  CalmInv'
<1> SUFFICES ASSUME Calm' PROVE CalmInv'
  BY DEF CalmInv
<1>1. /\ Running' = Running /\ Finished' = Finished
      /\ \A p \in Pods : Mine(pods[p])' => Mine(pods[p]) /\ pods'[p] = pods[p]
  BY OwnedKept
<1>2. Converged' <=> Converged
  BY <1>1 DEF Converged, Wanted
<1> QED
  BY <1>1, <1>2 DEF CalmInv, locals

(* Writes that do not come from the worker keep the calm invariant.        *)
LEMMA OutsideCalm ==
    ASSUME TypeOK, QuietKeepsOwned, CalmInv, Outside, NoGap' => NoGap
    PROVE  QuietKeepsOwned' /\ CalmInv'
<1>1. TypeOK' /\ UNCHANGED <<queued, backoff, pc, locals>>
  BY OutsideType, OutsideWrite
<1>2. CASE UNCHANGED podLog
  <2>1. QuietKeepsOwned'
    BY <1>2 DEF QuietKeepsOwned, QuietFrom, pods
  <2>2. CASE UNCHANGED svcLog
    BY <1>1, <1>2, <2>1, <2>2, CalmBefore, KeepsCalm DEF svc
  <2>3. CASE Len(svcLog') = Len(svcLog) + 1
    <3>1. ~Calm'
      BY <2>3, Ends DEF Calm
    <3> QED
      BY <2>1, <3>1 DEF CalmInv
  <2>4. UNCHANGED svcLog \/ Len(svcLog') = Len(svcLog) + 1
    BY OutsideWrite, PutServiceEffect DEF OneWrite
  <2> QED
    BY <2>2, <2>3, <2>4
<1>3. CASE UNCHANGED svcLog /\ \E p \in Pods, pod \in Pod : PutPod(p, pod)
  <2>1. Appended
    BY <1>3, PutPodEffect DEF Appended
  <2>2. QuietKeepsOwned'
    BY <2>1, AppendKeepsQuiet DEF Appended
  <2>3. CalmInv'
    BY <1>1, <1>3, <2>1, CalmBefore, KeepsCalm DEF svc
  <2> QED
    BY <2>2, <2>3
<1> QED
  BY <1>2, <1>3, OutsideWrite DEF OneWrite

(* Deliveries either wake the worker up or tell it nothing it needs; so do *)
(* lists that hide nothing; a restart finds every Service that needs work. *)
LEMMA ManagerCalm ==
    ASSUME TypeOK, Budget, QuietKeepsOwned, CalmInv, Manager, NoGap' => NoGap
    PROVE  QuietKeepsOwned' /\ CalmInv'
<1>0. TypeOK'
  BY ManagerType
<1>1. CASE DeliverService \/ BackoffExpires \/ Resync
  <2>1. UNCHANGED podLog /\ queued'
    BY <1>1 DEF DeliverService, BackoffExpires, Resync
  <2> QED
    BY <2>1 DEF QuietKeepsOwned, QuietFrom, pods, CalmInv, Calm
<1>2. CASE DeliverPod
  <2>1. /\ QuietKeepsOwned' /\ pods' = pods
        /\ QuietFrom(1)' /\ ~Enqueues(podLog[1], podLog[2]) => QuietFrom(1)
    BY <1>2, TailKeepsQuiet DEF DeliverPod
  <2>2. svc' = svc /\ UNCHANGED <<svcLog, backoff, pc, locals>>
    BY <1>2 DEF DeliverPod, svc, worker
  <2>3. Calm' => Calm /\ ~Enqueues(pods, pods')
    BY Zenon, <1>2, <2>1, <2>2 DEF DeliverPod, Calm, Enqueues
  <2> QED
    BY <1>0, <2>1, <2>2, <2>3, KeepsCalm
<1>3. CASE RelistServices
  <2>1. UNCHANGED podLog /\ svc' = svc /\ (svc.uid # 0 => queued')
    BY Zenon, <1>3, Ends, LogSingle DEF RelistServices, svc
  <2> QED
    BY <2>1 DEF QuietKeepsOwned, QuietFrom, pods, CalmInv, Calm
<1>4. CASE RelistPods
  <2>1. Len(podLog') = 1 /\ pods' = pods /\ podLog # <<>> /\ Len(podLog) \in Nat
    BY <1>4, Ends, LogSingle DEF RelistPods, pods, TypeOK
  <2>2. QuietKeepsOwned'
    <3>1. \A k \in 1..Len(podLog') : k = 1
      BY <2>1
    <3> QED
      BY <2>1, <3>1 DEF QuietKeepsOwned, pods, Enqueues
  <2>3. svc' = svc /\ UNCHANGED <<svcLog, backoff, pc, locals>>
    BY <1>4 DEF RelistPods, svc, worker
  <2>4. ASSUME Calm' PROVE Calm
    <3>1. NoGap /\ NoGap' /\ ~queued /\ ~Enqueues(cachedPods, pods)
      BY Zenon, <1>4, <2>4 DEF Calm, RelistPods
    <3>2. ~Spend("gap")
      <4>1. Spend("gap") => fuel["gap"] \in Nat /\ fuel'["gap"] = fuel["gap"] - 1
        BY SpendType DEF Disturbances
      <4>2. fuel["gap"] = Fuel["gap"] /\ fuel'["gap"] = Fuel["gap"]
        BY <3>1 DEF NoGap
      <4>3. \A n \in Nat : n # n - 1
        OBVIOUS
      <4> QED
        BY <4>1, <4>2, <4>3
    <3>3. ~Swallows
      BY <1>4, <3>2 DEF RelistPods
    <3>4. QuietFrom(1)
      BY <3>1, <3>3 DEF Swallows, QuietFrom
    <3> QED
      BY <2>3, <2>4, <3>1, <3>4 DEF Calm
  <2>5. ~Enqueues(pods, pods')
    BY <2>1 DEF Enqueues
  <2> QED
    BY <1>0, <2>2, <2>3, <2>4, <2>5, KeepsCalm
<1>5. CASE Restart
  <2>1. Len(podLog') = 1 /\ QuietKeepsOwned'
    <3>1. Len(podLog') = 1 /\ podLog'[1] = pods
      BY <1>5, Ends, LogSingle DEF Restart
    <3>2. \A k \in 1..Len(podLog') : k = 1
      BY <3>1
    <3> QED
      BY <3>1, <3>2 DEF QuietKeepsOwned, pods, Enqueues
  <2>2. svc' = svc /\ (svc.uid # 0 => queued')
    BY Zenon, <1>5, Ends, LogSingle DEF Restart, svc
  <2> QED
    BY <2>1, <2>2 DEF CalmInv, Calm
<1> QED
  BY <1>1, <1>2, <1>3, <1>4, <1>5 DEF Manager

(* Among selected pods, those that the owner controls are claimed.         *)
LEMMA ClaimSelected ==
    ASSUME NEW pod, NEW me
    PROVE  Claim(pod, me, TRUE) = "claim" <=> pod.owner # NoOwner /\ pod.owner = me.uid
  BY DEF Claim

(* A step of Reconcile changes at most one pod.                            *)
LEMMA ReconcilePods ==
    ASSUME TypeOK, Reconcile
    PROVE  UNCHANGED podLog \/ Appended
<1>1. ASSUME NEW p \in Pods, NEW pod, PutPod(p, pod) PROVE Appended
  <2>1. podLog \in Seq([Pods -> Pod]) /\ podLog' = Append(podLog, [pods EXCEPT ![p] = pod])
    BY <1>1 DEF PutPod, TypeOK
  <2> QED
    BY <2>1 DEF Appended
<1>2. CASE \/ GetService \/ GetServiceFails \/ ListPods \/ ListPodsFails \/ CanAdoptOnce
           \/ Claimed \/ Decide \/ RemoveFinalizer \/ AddFinalizer \/ KeepPods
  BY Zenon, <1>2 DEF GetService, GetServiceFails, ListPods, ListPodsFails, CanAdoptOnce,
              Claimed, Decide, RemoveFinalizer, AddFinalizer, KeepPods
<1>3. ASSUME NEW p \in Pods, Adopt(p) PROVE UNCHANGED podLog \/ Appended
  BY <1>1, <1>3 DEF Adopt, UpdateOwner
<1>4. ASSUME NEW p \in Pods, Delete(p) PROVE UNCHANGED podLog \/ Appended
  BY <1>1, <1>4 DEF Delete, DeletePod
<1>5. CASE CreatePod
  BY <1>1, <1>5 DEF CreatePod
<1> QED
  BY <1>2, <1>3, <1>4, <1>5 DEF Reconcile

(* A write of a pod that a Service controls, or will, is an event that     *)
(* enqueues the key.                                                       *)
LEMMA OwnedWriteEnqueues ==
    ASSUME TypeOK, NEW p \in Pods, NEW pod \in Pod, PutPod(p, pod), pod # pods[p],
           pods[p].owner \in Nat \/ pod.owner \in Nat
    PROVE  Enqueues(pods, pods')
<1>1. pods' = [pods EXCEPT ![p] = pod] /\ pods \in [Pods -> Pod]
  BY PutPodEffect, Ends
<1>2. pods'[p] = pod
  BY <1>1
<1> QED
  BY <1>2 DEF Enqueues

(* The reading steps: what is read is the truth, or a wake-up is coming.   *)
LEMMA ReadCalm ==
    ASSUME TypeOK, GuardInv, QuietKeepsOwned, CalmInv, NoGap' => NoGap,
           GetService \/ ListPods \/ CanAdoptOnce
    PROVE  CalmInv'
<1> USE DEF locals
<1>1. CASE GetService
  <2> SUFFICES ASSUME Calm' PROVE CalmInv'
    BY DEF CalmInv
  <2>1. Len(svcLog) = 1 /\ UNCHANGED <<svcLog, podLog>> /\ svc'.uid # 0
    BY <1>1 DEF GetService, Calm
  <2>2. cachedSvc = svc /\ svc' = svc
    BY Zenon, <2>1 DEF svc, cachedSvc
  <2> QED
    BY <1>1, <2>1, <2>2 DEF GetService, CalmInv
<1>2. CASE ListPods
  <2> SUFFICES ASSUME Calm' PROVE CalmInv'
    BY DEF CalmInv
  <2>1. Calm /\ svc' = svc /\ pods' = pods /\ pc' = "claim" /\ inst' = inst
    BY Zenon, <1>2 DEF ListPods, Calm, QuietFrom, svc, pods
  <2>2. inst = svc /\ svc.uid \in Nat /\ svc.uid # NoOwner
    BY Zenon, <1>2, <2>1, Ends, ServiceAssumption DEF ListPods, CalmInv, Service
  <2>3. ~Enqueues(cachedPods, pods)
    <3>1. QuietFrom(1)
      BY <2>1 DEF Calm
    <3> QED
      BY <3>1, Indices DEF QuietKeepsOwned, cachedPods
  <2>4. \A p \in Pods : cachedPods[p].owner = svc.uid \/ pods[p].owner = svc.uid
                            => cachedPods[p] = pods[p]
    BY <2>2, <2>3 DEF Enqueues
  <2>5. \A p \in Pods : Mine(pods[p]) <=> Selected(cachedPods[p], svc.uid) /\ cachedPods[p].owner = svc.uid
    BY <2>4 DEF Mine, Selected
  <2>6. claimed' = {p \in Pods : /\ Selected(cachedPods[p], svc.uid) /\ IsPodActive(cachedPods[p])
                                 /\ cachedPods[p].owner = svc.uid}
    BY Zenon, <1>2, <2>2, ClaimSelected DEF ListPods
  <2>7. claimed' = Running
    BY <2>4, <2>5, <2>6 DEF Running, Mine
  <2>8. \A p \in Pods : Mine(pods[p]) => view'[p] = pods[p]
    BY Zenon, <1>2, <2>2, <2>4, <2>5 DEF ListPods, Mine
  <2>9. Running' = Running /\ \A p \in Pods : Mine(pods[p])' <=> Mine(pods[p])
    BY <2>1 DEF Running, Mine, Selected, IsPodActive
  <2> QED
    BY <2>1, <2>2, <2>7, <2>8, <2>9 DEF CalmInv
<1>3. CASE CanAdoptOnce
  <2>1. UNCHANGED <<svcLog, podLog, queued, backoff, pc, inst, view, todo, claimed, failed>>
    BY <1>3 DEF CanAdoptOnce
  <2>2. Calm' => Calm
    BY <2>1 DEF Calm, QuietFrom, svc
  <2> QED
    BY Zenon, <2>1, <2>2 DEF CalmInv, Running, Finished, Converged, Mine, svc, pods
<1> QED
  BY <1>1, <1>2, <1>3

(* The steps that write pods: what they change comes back as an event.     *)
LEMMA WriteCalm ==
    ASSUME TypeOK, TypeOK', GuardInv, CalmInv, NoGap' => NoGap,
           NEW p \in Pods, Adopt(p) \/ Delete(p)
    PROVE  CalmInv'
<1> USE DEF locals
<1> SUFFICES ASSUME Calm' PROVE CalmInv'
  BY Zenon DEF CalmInv
<1>1. UNCHANGED podLog \/ Appended
  BY ReconcilePods DEF Reconcile
<1>2. UNCHANGED <<svcLog, queued, backoff, pc, inst, view>> /\ svc' = svc
  BY DEF Adopt, Delete, svc
<1>3. Calm /\ ~Enqueues(pods, pods')
  BY <1>1, <1>2, CalmBefore
<1>4. /\ Running' = Running /\ Finished' = Finished
      /\ \A q \in Pods : Mine(pods[q])' => Mine(pods[q]) /\ pods'[q] = pods[q]
  BY Zenon, <1>2, <1>3, OwnedKept
<1>5. pods[p] \in Pod /\ view[p] \in Pod /\ inst.uid \in Nat
  BY Ends DEF TypeOK, Service
<1>6. CASE Adopt(p)
  <2>1. Touched([view[p] EXCEPT !.owner = inst.uid]) \in Pod
    <3>1. [view[p] EXCEPT !.owner = inst.uid] \in Pod
      BY <1>5 DEF Pod
    <3> QED
      BY <3>1, TouchedType
  <2>2. /\ Touched([view[p] EXCEPT !.owner = inst.uid]).owner = inst.uid
        /\ Touched([view[p] EXCEPT !.owner = inst.uid]).rv = view[p].rv + 1
    BY <1>5 DEF Pod, Touched
  <2>3. ~(view[p].rv = pods[p].rv /\ PutPod(p, Touched([view[p] EXCEPT !.owner = inst.uid])))
    <3> SUFFICES ASSUME view[p].rv = pods[p].rv,
                        PutPod(p, Touched([view[p] EXCEPT !.owner = inst.uid]))
                 PROVE  FALSE
      OBVIOUS
    <3>1. Touched([view[p] EXCEPT !.owner = inst.uid]) # pods[p]
      BY <1>5, <2>2 DEF Pod
    <3> QED
      BY <1>3, <1>5, <2>1, <2>2, <3>1, OwnedWriteEnqueues
  <2>4. claimed' = claimed /\ pc = "claim"
    BY <1>6, <2>3 DEF Adopt, UpdateOwner, Lost
  <2> QED
    BY Zenon, <1>2, <1>3, <1>4, <2>4 DEF CalmInv
<1>7. CASE Delete(p)
  <2>1. PICK ok \in BOOLEAN : DeletePod(p, ok) /\ failed' = (failed \/ ~ok)
    BY <1>7 DEF Delete
  <2>2. pc \in {"reap", "evict"} /\ todo' = todo \ {p} /\ claimed' = claimed
    BY <1>7 DEF Delete
  <2>3. CASE ~ok
    BY Zenon, <1>2, <1>3, <1>4, <2>1, <2>2, <2>3 DEF CalmInv
  <2>4. CASE ok
    <3>1. p \notin Running /\ p \notin Finished
      <4> DEFINE new == Touched([pods[p] EXCEPT !.del = TRUE])
      <4>1. CASE pods[p].state = "none" \/ pods[p].del
        BY <4>1 DEF Running, Finished, Mine, Selected, IsPodActive
      <4>2. CASE ~pods[p].del /\ PutPod(p, new)
        <5>1. new \in Pod
          <6>1. [pods[p] EXCEPT !.del = TRUE] \in Pod
            BY Zenon, <1>5 DEF Pod
          <6> QED
            BY <6>1, TouchedType
        <5>2. new # pods[p]
          <6>1. new.del = TRUE
            BY <1>5 DEF Pod, Touched
          <6> QED
            BY <4>2, <6>1
        <5>3. pods[p].owner \notin Nat
          BY <1>3, <4>2, <5>1, <5>2, OwnedWriteEnqueues
        <5>4. svc.uid \in Nat
          BY Ends DEF Service
        <5> QED
          BY <5>3, <5>4 DEF Running, Finished, Mine
      <4> QED
        BY Zenon, <2>1, <2>4, <4>1, <4>2 DEF DeletePod, Lost
    <3>2. inst = svc /\ claimed = Running
      BY <1>3, <2>2 DEF CalmInv
    <3> QED
      BY Zenon, <1>2, <1>3, <1>4, <2>1, <2>2, <3>1, <3>2 DEF CalmInv
  <2> QED
    BY <2>3, <2>4
<1> QED
  BY <1>6, <1>7

(* The branches: with nothing left to do, the work is done.                *)
LEMMA BranchCalm ==
    ASSUME TypeOK, GuardInv, CalmInv, NoGap' => NoGap, Claimed \/ Decide \/ KeepPods
    PROVE  CalmInv'
<1> USE DEF locals
<1> SUFFICES ASSUME Calm' PROVE CalmInv'
  BY Zenon DEF CalmInv
<1>1. UNCHANGED <<svcLog, podLog, queued>> /\ svc' = svc /\ pods' = pods
  BY DEF Claimed, Decide, KeepPods, Return, svc, pods
<1>2. Calm /\ Running' = Running /\ Finished' = Finished
  BY <1>1 DEF Calm, QuietFrom, Running, Finished, Mine, Selected, IsPodActive
<1>3. ASSUME Return(FALSE) PROVE CalmInv'
  BY Zenon, <1>3 DEF Return, Reset, CalmInv
<1>4. pc # "idle" /\ pc # "list" /\ inst = svc /\ claimed = Running
  BY Zenon, <1>2 DEF Claimed, Decide, KeepPods, CalmInv
<1>5. CASE Claimed /\ ~failed
  <2>1. \A p \in Finished : view[p] = pods[p] /\ view[p].state = "done"
    BY Zenon, <1>2, <1>5 DEF Claimed, CalmInv, Finished
  <2>2. Finished \subseteq todo'
    BY Zenon, <1>5, <2>1 DEF Claimed, Finished, IsPodActive
  <2>3. pc' = "reap" /\ inst' = inst /\ claimed' = claimed
    BY Zenon, <1>5 DEF Claimed
  <2> QED
    BY Zenon, <1>1, <1>2, <1>4, <2>2, <2>3 DEF CalmInv
<1>6. CASE Decide /\ ~failed
  <2>1. Finished = {}
    BY <1>2, <1>6 DEF Decide, CalmInv
  <2>2. /\ pc' \in {"evict", "guard", "create"} /\ inst' = inst /\ claimed' = claimed
        /\ pc' = "evict" => todo' = claimed
    BY Zenon, <1>6 DEF Decide
  <2> QED
    BY <1>1, <1>2, <1>4, <2>1, <2>2 DEF CalmInv
<1>7. CASE KeepPods
  <2>1. Wanted(svc) /\ Tracking \in svc.fins /\ Running # {} /\ Finished = {}
    BY Zenon, <1>2, <1>4, <1>7 DEF KeepPods, CalmInv, GuardInv, Branches, GuardedCreate
  <2>2. Converged'
    BY <1>1, <1>2, <2>1 DEF Converged
  <2> QED
    BY <1>7, <2>2 DEF KeepPods, Return, Reset, CalmInv
<1> QED
  BY Zenon, <1>3, <1>5, <1>6, <1>7 DEF Claimed, Decide

(* The steps that end Reconcile with a request: an error puts the key into *)
(* the rate limiter, a write comes back as an event, and an Update that    *)
(* changed nothing found everything as it should be.                       *)
LEMMA RequestCalm ==
    ASSUME TypeOK, GuardInv, CalmInv, NoGap' => NoGap,
           RemoveFinalizer \/ AddFinalizer \/ CreatePod
    PROVE  CalmInv'
<1> USE DEF locals
<1> SUFFICES ASSUME Calm' PROVE CalmInv'
  BY DEF CalmInv
<1>0. inst \in Service /\ svc \in Service /\ Len(svcLog) >= 1 /\ Len(svcLog) \in Nat
  BY Ends DEF TypeOK
<1>1. ASSUME Return(FALSE) PROVE CalmInv'
  BY Zenon, <1>1 DEF Return, Reset, CalmInv
<1>2. ASSUME NEW s \in Service, PutService(s), s # svc PROVE FALSE
  <2>1. Len(svcLog') = Len(svcLog) + 1
    BY <1>2, PutServiceEffect
  <2> QED
    BY <1>0, <2>1 DEF Calm
<1>3. CASE RemoveFinalizer
  <2> DEFINE s == [inst EXCEPT !.fins = @ \ {Tracking}]
  <2>1. PICK ok \in BOOLEAN : UpdateService(s, ok) /\ Return(ok /\ ~failed)
    BY <1>3 DEF RemoveFinalizer
  <2>2. CASE ~(ok /\ ~failed)
    BY Zenon, <1>1, <2>1, <2>2
  <2>3. CASE ok /\ ~failed
    <3>1. inst.rv = svc.rv /\ PutService(s)
      BY <2>1, <2>3 DEF UpdateService, Lost
    <3>2. s \in Service /\ s.fins = inst.fins \ {Tracking}
      BY <1>0 DEF Service
    <3>3. s = svc
      BY <1>2, <3>1, <3>2
    <3>4. UNCHANGED <<svcLog, podLog, queued>> /\ svc' = svc /\ pods' = pods
      BY <1>3, <2>1, <3>1, <3>3 DEF RemoveFinalizer, Return, PutService, svc, pods
    <3>5. Calm /\ Running' = Running /\ Finished' = Finished
      BY <3>4 DEF Calm, QuietFrom, Running, Finished, Mine, Selected, IsPodActive
    <3>6. /\ pc = "evict" /\ inst = svc /\ claimed = Running /\ Finished = {} /\ Running = {}
          /\ ~Wanted(svc)
      BY <1>3, <2>3, <3>5 DEF RemoveFinalizer, CalmInv, GuardInv, Branches
    <3>7. Tracking \notin svc.fins
      BY Zenon, <3>2, <3>3
    <3>8. Converged'
      BY <3>4, <3>5, <3>6, <3>7 DEF Converged
    <3> QED
      BY <2>1, <3>8 DEF Return, Reset, CalmInv
  <2> QED
    BY <2>2, <2>3
<1>4. CASE AddFinalizer
  <2> DEFINE s == [inst EXCEPT !.fins = @ \union {Tracking}]
  <2>1. PICK ok \in BOOLEAN : UpdateService(s, ok) /\ (ok \/ Return(FALSE))
    BY Zenon, <1>4 DEF AddFinalizer
  <2>2. CASE ok
    <3>1. inst.rv = svc.rv /\ PutService(s)
      BY <2>1, <2>2 DEF UpdateService, Lost
    <3>2. s \in Service /\ s.fins = inst.fins \union {Tracking}
      BY <1>0 DEF Service, Finalizers
    <3>3. inst = svc /\ Tracking \notin inst.fins
      BY <1>4, <3>1, CurrentInstance DEF AddFinalizer, GuardInv, Branches
    <3> QED
      BY Zenon, <1>2, <3>1, <3>2, <3>3
  <2> QED
    BY Zenon, <1>1, <2>1, <2>2
<1>5. CASE CreatePod
  <2>1. PICK ok \in BOOLEAN :
           /\ \/ \E p \in Pods : Free(p) /\ PutPod(p, generatePod(inst.uid))
              \/ ~ok
           /\ Return(ok)
    BY <1>5 DEF CreatePod, Lost
  <2>2. UNCHANGED <<svcLog, queued>> /\ (UNCHANGED podLog \/ Appended)
    BY <1>5, ReconcilePods DEF CreatePod, Return, Reconcile
  <2>3. ~Enqueues(pods, pods')
    BY <2>2, CalmBefore
  <2>4. ASSUME NEW p \in Pods, Free(p), PutPod(p, generatePod(inst.uid)) PROVE FALSE
    <3>1. pods[p] = NoPod
      BY <2>4, Indices DEF Free, pods
    <3>2. /\ inst.uid \in Nat /\ generatePod(inst.uid) \in Pod
          /\ generatePod(inst.uid).owner \in Nat /\ generatePod(inst.uid) # NoPod
      BY <1>0, GeneratedType DEF Service
    <3> QED
      BY <2>3, <2>4, <3>1, <3>2, OwnedWriteEnqueues
  <2> QED
    BY Zenon, <1>1, <2>1, <2>4
<1> QED
  BY <1>3, <1>4, <1>5

(* Every step of Reconcile keeps the calm invariant.                       *)
LEMMA ReconcileCalm ==
    ASSUME TypeOK, GuardInv, QuietKeepsOwned, CalmInv, NoGap' => NoGap, Reconcile
    PROVE  QuietKeepsOwned' /\ CalmInv'
<1>1. QuietKeepsOwned'
  <2>1. CASE UNCHANGED podLog
    BY <2>1 DEF QuietKeepsOwned, QuietFrom, pods
  <2> QED
    BY <2>1, ReconcilePods, AppendKeepsQuiet DEF Appended
<1>2. CASE GetServiceFails \/ ListPodsFails
  <2>1. pc' = "idle"
    BY <1>2 DEF GetServiceFails, ListPodsFails, Return, Reset
  <2>2. backoff'
    BY Zenon, <1>2 DEF GetServiceFails, ListPodsFails, Return
  <2>3. CalmInv'
    BY <2>1, <2>2 DEF CalmInv
  <2> QED
    BY <1>1, <2>3
<1>3. CASE \E p \in Pods : Adopt(p) \/ Delete(p)
  BY <1>1, <1>3, ReconcileType, WriteCalm
<1> QED
  BY <1>1, <1>2, <1>3, ReadCalm, BranchCalm, RequestCalm DEF Reconcile

(* The initial state has nothing to do.                                    *)
LEMMA InitCalm == Init => QuietKeepsOwned /\ CalmInv
<1> SUFFICES ASSUME Init PROVE QuietKeepsOwned /\ CalmInv
  OBVIOUS
<1>1. Len(podLog) = 1 /\ svc.uid = 0 /\ pc = "idle"
  BY DEF Init, svc, NoService
<1> QED
  BY <1>1, SingleIsQuiet DEF CalmInv, Calm

(* Every step keeps the calm invariant.                                    *)
LEMMA NextCalm ==
    TypeOK /\ GuardInv /\ Budget /\ QuietKeepsOwned /\ CalmInv /\ [Next]_vars
        => QuietKeepsOwned' /\ CalmInv'
<1> SUFFICES ASSUME TypeOK, GuardInv, Budget, QuietKeepsOwned, CalmInv, [Next]_vars
             PROVE  QuietKeepsOwned' /\ CalmInv'
  OBVIOUS
<1>0. NoGap' => NoGap
  BY NextBudget
<1>1. CASE UNCHANGED vars
  <2>1. Calm' => Calm
    BY <1>1 DEF vars, Calm, NoGap, QuietFrom, svc
  <2> QED
    BY Zenon, <1>1, <2>1 DEF vars, locals, QuietKeepsOwned, QuietFrom, CalmInv, Converged, Running,
                      Finished, Mine, svc, pods
<1> QED
  BY <1>0, <1>1, ReconcileCalm, ManagerCalm, OutsideCalm DEF Next, Outside

(* IInv is an invariant.                                                   *)
THEOREM Invariance == Spec => []IInv
<1>1. Init => IInv
  <2>1. Init => Budget
    BY ServiceAssumption DEF Init, Budget, Disturbances
  <2> QED
    BY <2>1, InitType, InitGuard, InitCalm DEF IInv
<1>2. IInv /\ [Next]_vars => IInv'
  BY NextType, NextGuard, NextBudget, NextCalm DEF IInv
<1> QED
  BY <1>1, <1>2, PTL DEF Spec

(* The controller never comes to rest on a Service that still needs work:  *)
(* whatever lag, faults, restarts and interference, some event, delayed key*)
(* or queued key remains until Reconcile has found everything in place.    *)
THEOREM NoLostWakeUp == Spec => []RestsOnlyConverged
<1>1. IInv => RestsOnlyConverged
  <2> SUFFICES ASSUME IInv, Settled, NoGap, svc.uid # 0
               PROVE  /\ Wanted(svc) <=> Tracking \in svc.fins
                      /\ Wanted(svc) <=> \E p \in OwnedPods : IsPodActive(pods[p])
                      /\ \A p \in OwnedPods : pods[p].state = "done" => pods[p].del
    BY DEF RestsOnlyConverged
  <2>1. Calm
    BY DEF Settled, Calm, QuietFrom
  <2>2. Converged
    BY <2>1 DEF IInv, CalmInv, Settled
  <2>3. Running # {} <=> \E p \in OwnedPods : IsPodActive(pods[p])
    BY DEF Running, OwnedPods, Mine
  <2>4. Finished = {} => \A p \in OwnedPods : pods[p].state = "done" => pods[p].del
    BY DEF Finished, OwnedPods, Mine
  <2> QED
    BY <2>2, <2>3, <2>4 DEF Converged
<1> QED
  BY <1>1, Invariance, PTL

(* With current caches and no news since Reconcile began, it neither       *)
(* evicts the pods of a Service to be exposed nor adds a second pod: both  *)
(* mistakes need a lagging cache.                                          *)
THEOREM NoMistakeInSync == Spec => []RightWhenInSync
<1>1. IInv => RightWhenInSync
  <2> SUFFICES ASSUME IInv, InSync, NoGap, svc.uid # 0
               PROVE  /\ pc = "evict" => /\ svc.uid = inst.uid /\ ~Wanted(svc)
                                        /\ todo \subseteq OwnedPods
                      /\ pc = "create" /\ claimed = {} =>
                            \A p \in OwnedPods : ~IsPodActive(pods[p])
    BY DEF RightWhenInSync
  <2>1. Calm
    BY DEF InSync, Calm, QuietFrom
  <2> QED
    BY Zenon, <2>1 DEF IInv, CalmInv, GuardInv, Branches, Running, OwnedPods, Mine
<1> QED
  BY <1>1, Invariance, PTL

=============================================================================
