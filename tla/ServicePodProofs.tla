-------------------------- MODULE ServicePodProofs --------------------------
(***************************************************************************)
(* Proofs about what the reconciler does to pods from a list that may be   *)
(* old (it neither takes a pod from another controller nor reaps one that  *)
(* runs), that such work is done again, and what the reconciler's own      *)
(* writes of the Service amount to.                                        *)
(***************************************************************************)
EXTENDS ServiceControllerProofs, FiniteSetTheorems

-----------------------------------------------------------------------------
(* The inductive invariant.                                                *)

(* What may become of a pod: it goes for good, or is written again with a  *)
(* higher resourceVersion, and never comes back to life.                   *)
Follows(a, b) ==
    a # NoPod => \/ b = NoPod \/ b = a
                 \/ b.rv > a.rv /\ (IsPodActive(b) => IsPodActive(a))

Real(pod) == pod # NoPod => pod.state # "none" /\ pod.rv > 0

History ==
    \A i, j \in 1..Len(podLog), p \in Pods :
        Real(podLog[i][p]) /\ (i <= j => Follows(podLog[i][p], podLog[j][p]))

(* a is p as it once was.                                                  *)
Tracks(a, p) == a # NoPod /\ a.rv > 0 /\ \A i \in 1..Len(podLog) : Follows(a, podLog[i][p])

Inactive(p) == \A i \in 1..Len(podLog) : ~IsPodActive(podLog[i][p])

Listed == \A p \in Pods : view[p] # NoPod => Tracks(view[p], p)

Adoptable == pc = "claim" => \A p \in todo : view[p] # NoPod /\ view[p].owner = NoOwner

Reaped == pc = "reap" => \A p \in todo : Inactive(p)

LateAdoptions ==
    \A r \in late : r.at = "claim" =>
        \A p \in r.on : r.seen.owner = NoOwner /\ Tracks(r.seen, p)

PodInv == History /\ Listed /\ Adoptable /\ Reaped /\ LateAdoptions

(* What any write makes of a pod.                                          *)
Rewrites(p, pod) ==
    \/ Free(p) /\ pod.rv > 0 /\ pod.state # "none"
    \/ pod = NoPod
    \/ /\ pods[p] # NoPod /\ pod.rv = pods[p].rv + 1 /\ pod.state # "none"
       /\ IsPodActive(pod) => IsPodActive(pods[p])
       /\ pods[p].owner = Foreign => pod.owner = Foreign

LogChange ==
    \/ UNCHANGED podLog
    \/ Len(podLog) > 1 /\ podLog' = Tail(podLog)
    \/ podLog' = <<pods>>
    \/ \E p \in Pods, pod \in Pod : PutPod(p, pod) /\ Rewrites(p, pod)

-----------------------------------------------------------------------------
(* The history of the pods.                                                *)

(* What followed a pod that someone refers to still does after a write.    *)
LEMMA FollowsWrite ==
    ASSUME TypeOK, NEW p \in Pods, NEW pod \in Pod, PutPod(p, pod), Rewrites(p, pod),
           NEW q \in Pods, NEW a \in Pod, Follows(a, pods[q]), a # NoPod => ~Free(q)
    PROVE  Follows(a, pods'[q])
<1>1. pods' = [pods EXCEPT ![p] = pod] /\ pods \in [Pods -> Pod]
  BY PutPodEffect, Ends
<1>2. CASE q # p
  BY <1>1, <1>2
<1>3. CASE q = p
  <2> SUFFICES ASSUME a # NoPod PROVE Follows(a, pod)
    BY <1>1, <1>3 DEF Follows
  <2>1. CASE pod = NoPod
    BY <2>1 DEF Follows
  <2>2. CASE /\ pods[p] # NoPod /\ pod.rv = pods[p].rv + 1
             /\ IsPodActive(pod) => IsPodActive(pods[p])
    <3>1. a.rv \in Nat /\ pods[p].rv \in Nat
      BY <1>1 DEF Pod
    <3>2. \/ pods[p] = a
          \/ pods[p].rv > a.rv /\ (IsPodActive(pods[p]) => IsPodActive(a))
      BY <1>3, <2>2 DEF Follows
    <3>3. pod.rv > a.rv
      BY <2>2, <3>1, <3>2
    <3> QED
      BY <2>2, <3>2, <3>3 DEF Follows
  <2> QED
    BY <1>3, <2>1, <2>2 DEF Rewrites
<1> QED
  BY <1>2, <1>3

(* A pod that is inactive and that someone refers to stays inactive.       *)
LEMMA InactiveWrite ==
    ASSUME TypeOK, NEW p \in Pods, NEW pod \in Pod, PutPod(p, pod), Rewrites(p, pod),
           NEW q \in Pods, ~Free(q), ~IsPodActive(pods[q])
    PROVE  ~IsPodActive(pods'[q])
<1>1. pods' = [pods EXCEPT ![p] = pod] /\ pods \in [Pods -> Pod]
  BY PutPodEffect, Ends
<1>2. CASE q # p
  BY <1>1, <1>2
<1>3. CASE q = p
  BY <1>1, <1>3 DEF Rewrites, IsPodActive, NoPod
<1> QED
  BY <1>2, <1>3

(* Every change of the history, whoever makes it, keeps what the invariant *)
(* says of pods that someone refers to.                                    *)
LEMMA LogStep ==
    ASSUME TypeOK, History, LogChange
    PROVE  /\ History'
           /\ \A a \in Pod, q \in Pods : Tracks(a, q) /\ ~Free(q) => Tracks(a, q)'
           /\ \A q \in Pods : Inactive(q) /\ ~Free(q) => Inactive(q)'
<1> DEFINE n == Len(podLog)
<1>0. /\ n \in Nat /\ n >= 1 /\ podLog \in Seq([Pods -> Pod])
      /\ \A i \in 1..n : podLog[i] \in [Pods -> Pod]
      /\ pods = podLog[n] /\ n \in 1..n
  BY Ends, Indices DEF TypeOK, pods
<1>1. CASE UNCHANGED podLog
  BY <1>1 DEF History, Tracks, Inactive
<1>2. CASE n > 1 /\ podLog' = Tail(podLog)
  <2>1. Len(podLog') = n - 1 /\ \A i \in 1..(n - 1) : podLog'[i] = podLog[i + 1]
    BY <1>0, <1>2, LogTail
  <2>2. \A i \in 1..(n - 1) : i + 1 \in 1..n
    BY <1>0
  <2>3. \A i, j \in 1..(n - 1) : i <= j => i + 1 <= j + 1
    BY <1>0
  <2>4. History'
    <3> SUFFICES ASSUME NEW i \in 1..Len(podLog'), NEW j \in 1..Len(podLog'), NEW q \in Pods
                 PROVE  /\ Real(podLog'[i][q])
                        /\ i <= j => Follows(podLog'[i][q], podLog'[j][q])
      BY DEF History
    <3>1. i \in 1..(n - 1) /\ j \in 1..(n - 1)
      BY <2>1
    <3>2. podLog'[i] = podLog[i + 1] /\ podLog'[j] = podLog[j + 1]
      BY <2>1, <3>1
    <3>3. i + 1 \in 1..n /\ j + 1 \in 1..n /\ (i <= j => i + 1 <= j + 1)
      BY <2>2, <2>3, <3>1
    <3> QED
      BY <3>2, <3>3 DEF History
  <2>5. \A a, q : Tracks(a, q) => Tracks(a, q)'
    BY <2>1, <2>2 DEF Tracks
  <2>6. \A q : Inactive(q) => Inactive(q)'
    BY <2>1, <2>2 DEF Inactive
  <2> QED
    BY <2>4, <2>5, <2>6
<1>3. CASE podLog' = <<pods>>
  <2>1. Len(podLog') = 1 /\ podLog'[1] = podLog[n]
    BY <1>0, <1>3, LogSingle
  <2>2. \A i \in 1..Len(podLog') : i = 1
    BY <2>1
  <2>3. \A q \in Pods : Real(podLog[n][q])
    BY <1>0 DEF History
  <2>4. \A q \in Pods : Follows(podLog[n][q], podLog[n][q])
    BY DEF Follows
  <2>5. History'
    BY <2>1, <2>2, <2>3, <2>4 DEF History
  <2>6. \A a, q : Tracks(a, q) => Tracks(a, q)'
    BY <1>0, <2>1, <2>2 DEF Tracks
  <2>7. \A q : Inactive(q) => Inactive(q)'
    BY <1>0, <2>1, <2>2 DEF Inactive
  <2> QED
    BY <2>5, <2>6, <2>7
<1>4. ASSUME NEW p \in Pods, NEW pod \in Pod, PutPod(p, pod), Rewrites(p, pod)
      PROVE  /\ History'
             /\ \A a \in Pod, q \in Pods : Tracks(a, q) /\ ~Free(q) => Tracks(a, q)'
             /\ \A q \in Pods : Inactive(q) /\ ~Free(q) => Inactive(q)'
  <2>1. /\ Len(podLog') = n + 1 /\ \A i \in 1..n : podLog'[i] = podLog[i]
        /\ pods' = podLog'[n + 1] /\ pods' = [pods EXCEPT ![p] = pod]
    BY <1>4, PutPodEffect DEF pods
  <2>2. \A i \in 1..(n + 1) : i \in 1..n \/ i = n + 1
    BY <1>0
  <2>3. \A i \in 1..n, q \in Pods : Follows(podLog[i][q], pods'[q])
    <3> SUFFICES ASSUME NEW i \in 1..n, NEW q \in Pods PROVE Follows(podLog[i][q], pods'[q])
      OBVIOUS
    <3>1. podLog[i][q] \in Pod
      BY <1>0
    <3>2. i <= n
      BY <1>0
    <3>3. Follows(podLog[i][q], pods[q])
      BY <1>0, <3>2 DEF History
    <3>4. podLog[i][q] # NoPod => ~Free(q)
      BY DEF Free
    <3> QED
      BY <1>4, <3>1, <3>3, <3>4, FollowsWrite
  <2>4. \A q \in Pods : Real(pods'[q])
    <3> SUFFICES ASSUME NEW q \in Pods PROVE Real(pods'[q])
      OBVIOUS
    <3>1. Real(pods[q]) /\ pods \in [Pods -> Pod]
      BY <1>0 DEF History
    <3>2. CASE q # p
      BY <2>1, <3>1, <3>2
    <3>3. CASE q = p
      <4>1. pods'[q] = pod
        BY <2>1, <3>1, <3>3
      <4>2. pod # NoPod => pod.state # "none" /\ (pod.rv > 0 \/ pod.rv = pods[p].rv + 1)
        BY <1>4 DEF Rewrites
      <4>3. pods[p].rv + 1 > 0
        BY <3>1 DEF Pod
      <4> QED
        BY <4>1, <4>2, <4>3 DEF Real
    <3> QED
      BY <3>2, <3>3
  <2>5. \A q \in Pods : Follows(pods'[q], pods'[q])
    BY DEF Follows
  <2>6. History'
    <3> SUFFICES ASSUME NEW i \in 1..(n + 1), NEW j \in 1..(n + 1), NEW q \in Pods
                 PROVE  /\ Real(podLog'[i][q])
                        /\ i <= j => Follows(podLog'[i][q], podLog'[j][q])
      BY <2>1 DEF History
    <3>1. CASE i \in 1..n /\ j \in 1..n
      BY <2>1, <3>1 DEF History
    <3>2. CASE i \in 1..n /\ j = n + 1
      BY Zenon, <1>0, <2>1, <2>3, <3>2 DEF History
    <3>3. CASE i = n + 1 /\ j \in 1..n
      <4>1. ~(i <= j)
        BY <1>0, <3>3
      <4> QED
        BY Zenon, <2>1, <2>4, <3>3, <4>1
    <3>4. CASE i = n + 1 /\ j = n + 1
      BY Zenon, <2>1, <2>4, <2>5, <3>4
    <3> QED
      BY <2>2, <3>1, <3>2, <3>3, <3>4
  <2>7. ASSUME NEW a \in Pod, NEW q \in Pods, Tracks(a, q), ~Free(q) PROVE Tracks(a, q)'
    <3>1. Follows(a, pods[q])
      BY <1>0, <2>7 DEF Tracks
    <3>2. Follows(a, pods'[q])
      BY <1>4, <2>7, <3>1, FollowsWrite
    <3> QED
      BY Zenon, <2>1, <2>2, <2>7, <3>2 DEF Tracks
  <2>8. ASSUME NEW q \in Pods, Inactive(q), ~Free(q) PROVE Inactive(q)'
    <3>1. ~IsPodActive(pods[q])
      BY <1>0, <2>8 DEF Inactive
    <3>2. ~IsPodActive(pods'[q])
      BY <1>4, <2>8, <3>1, InactiveWrite
    <3> QED
      BY Zenon, <2>1, <2>2, <2>8, <3>2 DEF Inactive
  <2> QED
    BY <2>6, <2>7, <2>8
<1> QED
  BY <1>1, <1>2, <1>3, <1>4 DEF LogChange

-----------------------------------------------------------------------------
(* Who writes pods, and how.                                               *)

(* An adoption is accepted only while the pod is as it was listed.         *)
LEMMA Adoption ==
    ASSUME TypeOK, History, NEW p \in Pods, NEW a \in Pod, Tracks(a, p), a.owner = NoOwner,
           a.rv = pods[p].rv, NEW uid \in Nat
    PROVE  Rewrites(p, Touched([a EXCEPT !.owner = uid]))
<1> DEFINE new == Touched([a EXCEPT !.owner = uid])
<1>1. pods[p] \in Pod /\ Follows(a, pods[p]) /\ a # NoPod /\ a.rv > 0
  BY Ends, Indices DEF Tracks, pods
<1>2. pods[p] = a
  <2>1. pods[p] # NoPod
    BY <1>1 DEF NoPod
  <2>2. a.rv \in Nat
    BY DEF Pod
  <2>3. ~(pods[p].rv > a.rv)
    BY <2>2
  <2> QED
    BY <1>1, <2>1, <2>3 DEF Follows
<1>3. /\ new.rv = a.rv + 1 /\ new.state = a.state /\ new.del = a.del
  BY DEF Touched, Pod
<1>4. a.owner # Foreign
  BY OwnerAssumption
<1>5. IsPodActive(new) => IsPodActive(a)
  BY <1>3 DEF IsPodActive
<1>6. a.state # "none"
  BY <1>1, <1>2, Ends, Indices DEF History, Real, pods
<1> QED
  BY <1>1, <1>2, <1>3, <1>4, <1>5, <1>6 DEF Rewrites

(* A write of a pod that is there gives it the next resourceVersion.       *)
LEMMA Rewriting ==
    ASSUME TypeOK, History, NEW p \in Pods, pods[p] # NoPod
    PROVE  /\ Rewrites(p, Touched([pods[p] EXCEPT !.del = TRUE]))
           /\ Rewrites(p, Touched([pods[p] EXCEPT !.state = "done"]))
           /\ \A owner : pods[p].owner # Foreign =>
                 Rewrites(p, Touched([pods[p] EXCEPT !.owner = owner]))
<1>1. pods[p] \in Pod /\ pods[p].state # "none"
  BY Ends, Indices DEF History, Real, pods
<1>2. Rewrites(p, Touched([pods[p] EXCEPT !.del = TRUE]))
  BY <1>1 DEF Rewrites, Touched, IsPodActive, Pod
<1>3. Rewrites(p, Touched([pods[p] EXCEPT !.state = "done"]))
  BY <1>1 DEF Rewrites, Touched, IsPodActive, Pod
<1>4. ASSUME NEW owner, pods[p].owner # Foreign
      PROVE  Rewrites(p, Touched([pods[p] EXCEPT !.owner = owner]))
  BY <1>1, <1>4 DEF Rewrites, Touched, IsPodActive, Pod
<1> QED
  BY <1>2, <1>3, <1>4

(* A step of the worker changes pods in these ways only.                   *)
LEMMA ReconcileLog ==
    ASSUME TypeOK, PodInv, Reconcile
    PROVE  LogChange
<1>0. inst.uid \in Nat /\ \A p \in Pods : pods[p] \in Pod /\ view[p] \in Pod
  BY Ends DEF TypeOK, Service
<1>1. CASE \/ GetService \/ GetServiceFails \/ ListPods \/ ListPodsFails \/ CanAdoptOnce
           \/ Claimed \/ Decide \/ RemoveFinalizer \/ AddFinalizer \/ KeepPods
  <2>1. UNCHANGED podLog
    BY Zenon, <1>1 DEF GetService, GetServiceFails, ListPods, ListPodsFails, CanAdoptOnce,
                Claimed, Decide, RemoveFinalizer, AddFinalizer, KeepPods
  <2> QED
    BY <2>1 DEF LogChange
<1>2. ASSUME NEW p \in Pods, Adopt(p) PROVE LogChange
  <2> DEFINE new == Touched([view[p] EXCEPT !.owner = inst.uid])
  <2>1. pc = "claim" /\ p \in todo
        /\ (UNCHANGED podLog \/ (view[p].rv = pods[p].rv /\ PutPod(p, new)))
    BY <1>2 DEF Adopt, UpdateOwner
  <2>2. view[p].owner = NoOwner /\ Tracks(view[p], p)
    BY <2>1 DEF PodInv, Adoptable, Listed
  <2>3. view[p].rv = pods[p].rv => Rewrites(p, new)
    BY <1>0, <2>2, Adoption DEF PodInv
  <2>4. new \in Pod
    BY Zenon, <1>0, WrittenType
  <2> QED
    BY <2>1, <2>3, <2>4 DEF LogChange
<1>3. ASSUME NEW p \in Pods, Delete(p) PROVE LogChange
  <2> DEFINE new == Touched([pods[p] EXCEPT !.del = TRUE])
  <2>1. UNCHANGED podLog \/ (pods[p].state # "none" /\ PutPod(p, new))
    BY <1>3 DEF Delete, DeletePod
  <2>2. ASSUME pods[p].state # "none" PROVE Rewrites(p, new)
    <3>1. pods[p] # NoPod
      BY <2>2 DEF NoPod
    <3> QED
      BY Zenon, <3>1, Rewriting DEF PodInv
  <2>3. new \in Pod
    BY Zenon, <1>0, WrittenType
  <2> QED
    BY <2>1, <2>2, <2>3 DEF LogChange
<1>4. CASE CreatePod
  <2>1. UNCHANGED podLog \/ \E p \in Pods : Free(p) /\ PutPod(p, generatePod(inst.uid))
    BY <1>4 DEF CreatePod
  <2>2. generatePod(inst.uid).rv > 0 /\ generatePod(inst.uid).state # "none"
    BY DEF generatePod
  <2>3. \A p \in Pods : Free(p) => Rewrites(p, generatePod(inst.uid))
    BY <2>2 DEF Rewrites
  <2> QED
    BY <1>0, <2>1, <2>3, GeneratedType DEF LogChange
<1> QED
  BY <1>1, <1>2, <1>3, <1>4 DEF Reconcile

(* So does what comes of a late request.                                   *)
LEMMA LateLog ==
    ASSUME TypeOK, PodInv, LateRequest
    PROVE  LogChange
<1>1. PICK r \in late : Serve(r) \/ UNCHANGED podLog
  BY DEF LateRequest
<1>2. r.inst.uid \in Nat /\ r.on \in SUBSET Pods /\ r.seen \in Pod
  BY DEF TypeOK, Request, Service
<1>3. \A p \in Pods : pods[p] \in Pod
  BY Ends
<1>4. CASE UNCHANGED podLog
  BY <1>4 DEF LogChange
<1>5. ASSUME NEW p \in Pods, Free(p), PutPod(p, generatePod(r.inst.uid)) PROVE LogChange
  <2>0. generatePod(r.inst.uid).rv > 0 /\ generatePod(r.inst.uid).state # "none"
    BY DEF generatePod
  <2>1. Rewrites(p, generatePod(r.inst.uid))
    BY <1>5, <2>0 DEF Rewrites
  <2> QED
    BY <1>2, <1>5, <2>1, GeneratedType DEF LogChange
<1>6. ASSUME NEW p \in r.on, r.at = "claim", r.seen.rv = pods[p].rv,
             PutPod(p, Touched([r.seen EXCEPT !.owner = r.inst.uid]))
      PROVE  LogChange
  <2>1. p \in Pods /\ r.seen.owner = NoOwner /\ Tracks(r.seen, p)
    BY <1>2, <1>6 DEF PodInv, LateAdoptions
  <2>2. Rewrites(p, Touched([r.seen EXCEPT !.owner = r.inst.uid]))
    BY <1>2, <1>6, <2>1, Adoption DEF PodInv
  <2> QED
    BY Zenon, <1>2, <1>6, <2>1, <2>2, WrittenType DEF LogChange
<1>7. ASSUME NEW p \in r.on, pods[p].state # "none",
             PutPod(p, Touched([pods[p] EXCEPT !.del = TRUE]))
      PROVE  LogChange
  <2>1. p \in Pods /\ pods[p] # NoPod
    BY <1>2, <1>7 DEF NoPod
  <2>2. Rewrites(p, Touched([pods[p] EXCEPT !.del = TRUE]))
    BY Zenon, <2>1, Rewriting DEF PodInv
  <2> QED
    BY Zenon, <1>2, <1>3, <1>7, <2>1, <2>2, WrittenType DEF LogChange
<1> QED
  BY Zenon, <1>1, <1>4, <1>5, <1>6, <1>7 DEF Serve

(* So do the kubelets, the garbage collector and everyone else.            *)
LEMMA OthersLog ==
    ASSUME TypeOK, PodInv, Others
    PROVE  LogChange
<1>0. svc.uid \in Nat /\ \A p \in Pods : pods[p] \in Pod
  BY Ends DEF Service
<1>1. CASE CreateService \/ EditService \/ DeleteService \/ DropOtherFinalizer
  <2>1. UNCHANGED podLog
    BY Zenon, <1>1 DEF CreateService, EditService, DeleteService, DropOtherFinalizer
  <2> QED
    BY <2>1 DEF LogChange
<1>2. ASSUME NEW p \in Pods, CreateOtherPod(p) PROVE LogChange
  <2> DEFINE new(owner) == [state |-> "run", owner |-> owner, label |-> svc.uid,
                            del |-> FALSE, rv |-> 1]
  <2>1. PICK owner \in {NoOwner, Foreign} : PutPod(p, new(owner))
    BY Zenon, <1>2 DEF CreateOtherPod
  <2>2. new(owner) \in Pod
    BY <1>0 DEF Pod
  <2>3. Free(p) /\ new(owner).rv > 0 /\ new(owner).state # "none"
    BY <1>2 DEF CreateOtherPod
  <2> HIDE DEF new
  <2>4. Rewrites(p, new(owner))
    BY <2>3 DEF Rewrites
  <2> QED
    BY <2>1, <2>2, <2>4 DEF LogChange
<1>3. ASSUME NEW p \in Pods, NEW pod, pods[p] # NoPod, PutPod(p, pod),
             \/ pod = Touched([pods[p] EXCEPT !.del = TRUE])
             \/ pod = Touched([pods[p] EXCEPT !.state = "done"])
             \/ /\ pods[p].owner # Foreign
                /\ \E owner \in {NoOwner, Foreign} :
                      pod = Touched([pods[p] EXCEPT !.owner = owner])
      PROVE  LogChange
  <2>1. Rewrites(p, pod)
    BY Zenon, <1>3, Rewriting DEF PodInv
  <2>2. /\ [pods[p] EXCEPT !.del = TRUE] \in Pod
        /\ [pods[p] EXCEPT !.state = "done"] \in Pod
    BY Zenon, <1>0 DEF Pod
  <2>3. \A owner \in {NoOwner, Foreign} : [pods[p] EXCEPT !.owner = owner] \in Pod
    BY <1>0 DEF Pod
  <2>4. pod \in Pod
    BY <1>3, <2>2, <2>3, TouchedType
  <2> QED
    BY <1>3, <2>1, <2>4 DEF LogChange
<1>4. ASSUME NEW p \in Pods, ChangeOwner(p) PROVE LogChange
  <2>1. pods[p] # NoPod /\ pods[p].owner # Foreign
    BY <1>4 DEF ChangeOwner, NoPod
  <2>2. PICK owner \in {NoOwner, Foreign} : PutPod(p, Touched([pods[p] EXCEPT !.owner = owner]))
    BY <1>4 DEF ChangeOwner
  <2> QED
    BY Zenon, <1>3, <2>1, <2>2
<1>5. ASSUME NEW p \in Pods, FinishPod(p) PROVE LogChange
  <2>1. pods[p] # NoPod /\ PutPod(p, Touched([pods[p] EXCEPT !.state = "done"]))
    BY <1>5 DEF FinishPod, NoPod
  <2> QED
    BY Zenon, <1>3, <2>1
<1>6. ASSUME NEW p \in Pods, KillPod(p) \/ CollectGarbage(p) PROVE LogChange
  <2>1. PutPod(p, Touched([pods[p] EXCEPT !.del = TRUE]))
    BY <1>6 DEF KillPod, CollectGarbage
  <2>2. pods[p].state # "none" \/ pods[p].owner \in Nat
    BY <1>6 DEF KillPod, CollectGarbage
  <2>3. NoPod.state = "none" /\ NoPod.owner = NoOwner
    BY DEF NoPod
  <2>4. pods[p] # NoPod
    BY <2>2, <2>3, ServiceAssumption
  <2> QED
    BY Zenon, <1>3, <2>1, <2>4
<1>7. ASSUME NEW p \in Pods, RemovePod(p) PROVE LogChange
  BY <1>7, EmptyObjects DEF RemovePod, LogChange, Rewrites
<1> QED
  BY <1>1, <1>2, <1>4, <1>5, <1>6, <1>7 DEF Others

(* The informers only drop what they have shown.                           *)
LEMMA ManagerLog ==
    ASSUME TypeOK, Manager
    PROVE  LogChange
  BY DEF Manager, DeliverService, DeliverPod, RelistServices, RelistPods, BackoffExpires,
         Resync, Restart, LogChange

-----------------------------------------------------------------------------
(* The invariant is preserved.                                             *)

(* The worker refers to no pod it did not refer to before.                 *)
Narrows ==
    /\ \A q \in Pods : view'[q] # NoPod => view'[q] = view[q]
    /\ pc' = "claim" => pc = "claim" /\ view' = view /\ todo' \subseteq todo
    /\ pc' = "reap" => pc = "reap" /\ todo' \subseteq todo
    /\ late' \subseteq late

(* Then only the history matters.                                          *)
LEMMA NarrowingKeeps ==
    ASSUME TypeOK, PodInv, LogChange, Narrows
    PROVE  PodInv'
<1>1. /\ History'
      /\ \A a \in Pod, q \in Pods : Tracks(a, q) /\ ~Free(q) => Tracks(a, q)'
      /\ \A q \in Pods : Inactive(q) /\ ~Free(q) => Inactive(q)'
  BY LogStep DEF PodInv
<1>2. /\ view \in [Pods -> Pod] /\ todo \in SUBSET Pods /\ claimed \in SUBSET Pods
      /\ \A r \in late : r.seen \in Pod /\ r.on \in SUBSET Pods
  BY DEF TypeOK, Request
<1>3. Listed'
  <2> SUFFICES ASSUME NEW q \in Pods, NEW a, a = view'[q], a # NoPod PROVE Tracks(a, q)'
    BY DEF Listed, Tracks
  <2>1. a = view[q] /\ view[q] # NoPod /\ a \in Pod
    BY <1>2 DEF Narrows
  <2>2. Tracks(a, q) /\ ~Free(q)
    BY <2>1 DEF PodInv, Listed, Free
  <2> QED
    BY <1>1, <2>1, <2>2
<1>4. Adoptable'
  BY <1>2 DEF PodInv, Adoptable, Narrows
<1>5. Reaped'
  <2> SUFFICES ASSUME pc' = "reap", NEW q \in todo' PROVE Inactive(q)'
    BY DEF Reaped
  <2>1. pc = "reap" /\ q \in todo /\ q \in Pods
    BY <1>2 DEF Narrows
  <2>2. Inactive(q) /\ ~Free(q)
    BY <2>1 DEF PodInv, Reaped, Free
  <2> QED
    BY <1>1, <2>1, <2>2
<1>6. LateAdoptions'
  <2> SUFFICES ASSUME NEW r \in late', r.at = "claim", NEW q \in r.on
               PROVE  r.seen.owner = NoOwner /\ Tracks(r.seen, q)'
    BY DEF LateAdoptions
  <2>1. r \in late /\ q \in Pods /\ r.seen \in Pod
    BY <1>2 DEF Narrows
  <2>2. r.seen.owner = NoOwner /\ Tracks(r.seen, q) /\ ~Free(q)
    BY <2>1 DEF PodInv, LateAdoptions, Free
  <2> QED
    BY <1>1, <2>1, <2>2
<1> QED
  BY <1>1, <1>3, <1>4, <1>5, <1>6 DEF PodInv

(* A list shows pods as they are in the cache.                             *)
LEMMA ListPodsKeeps ==
    ASSUME TypeOK, PodInv, ListPods
    PROVE  PodInv'
<1>0. /\ \A q \in Pods : cachedPods[q] \in Pod /\ cachedPods = podLog[1]
      /\ 1 \in 1..Len(podLog) /\ Len(podLog) \in Nat
  BY Ends, Indices DEF cachedPods
<1>1. UNCHANGED <<podLog, late>> /\ pc' = "claim"
  BY DEF ListPods
<1>2. \A q \in Pods : view'[q] = cachedPods[q] \/ view'[q] = NoPod
  BY DEF ListPods
<1>3. \A q \in Pods : cachedPods[q] # NoPod => Tracks(cachedPods[q], q)
  <2> SUFFICES ASSUME NEW q \in Pods, cachedPods[q] # NoPod PROVE Tracks(cachedPods[q], q)
    OBVIOUS
  <2>1. \A i \in 1..Len(podLog) : 1 <= i
    BY <1>0
  <2>2. Real(cachedPods[q]) /\ \A i \in 1..Len(podLog) : Follows(cachedPods[q], podLog[i][q])
    BY <1>0, <2>1 DEF PodInv, History
  <2> QED
    BY <2>2 DEF Tracks, Real
<1>4. Listed'
  BY <1>1, <1>2, <1>3 DEF Listed, Tracks
<1>5. Adoptable'
  <2> SUFFICES ASSUME NEW q \in todo' PROVE view'[q] # NoPod /\ view'[q].owner = NoOwner
    BY DEF Adoptable
  <2>1. /\ q \in Pods /\ Selected(cachedPods[q], inst.uid)
        /\ Claim(cachedPods[q], inst, TRUE) = "adopt"
    BY Zenon DEF ListPods
  <2>2. cachedPods[q].owner = NoOwner /\ cachedPods[q] # NoPod
    BY <2>1 DEF Claim, Selected, NoPod
  <2>3. view'[q] = cachedPods[q]
    BY <2>1 DEF ListPods
  <2> QED
    BY <2>2, <2>3
<1>6. History'
  BY <1>1 DEF PodInv, History
<1>7. LateAdoptions'
  BY <1>1 DEF PodInv, LateAdoptions, Tracks
<1>8. Reaped'
  BY <1>1 DEF Reaped
<1> QED
  BY <1>4, <1>5, <1>6, <1>7, <1>8 DEF PodInv

(* The pods to be reaped were inactive when listed.                        *)
LEMMA ClaimedKeeps ==
    ASSUME TypeOK, PodInv, Claimed
    PROVE  PodInv'
<1>1. CASE Return(FALSE)
  <2>1. Narrows
    BY <1>1 DEF Narrows, Return, Reset, NoPods, Claimed
  <2>2. LogChange
    BY DEF Claimed, LogChange
  <2> QED
    BY <2>1, <2>2, NarrowingKeeps
<1>2. CASE ~Return(FALSE)
  <2>1. /\ UNCHANGED <<podLog, late>> /\ pc' = "reap" /\ view' = NoPods
        /\ todo' = {q \in Pods : view[q].state # "none" /\ ~IsPodActive(view[q])}
    BY Zenon, <1>2 DEF Claimed
  <2>2. \A q \in todo' : Inactive(q)
    <3> SUFFICES ASSUME NEW q \in todo', NEW i \in 1..Len(podLog)
                 PROVE  ~IsPodActive(podLog[i][q])
      BY DEF Inactive
    <3>0. NoPod.state = "none"
      BY DEF NoPod
    <3>1. q \in Pods /\ view[q] # NoPod /\ ~IsPodActive(view[q])
      BY <2>1, <3>0
    <3>2. Follows(view[q], podLog[i][q])
      BY <3>1 DEF PodInv, Listed, Tracks
    <3>3. ~IsPodActive(NoPod)
      BY DEF NoPod, IsPodActive
    <3> QED
      BY <3>1, <3>2, <3>3 DEF Follows
  <2>3. Listed' /\ Adoptable'
    BY <2>1 DEF Listed, Adoptable, NoPods
  <2>4. Reaped'
    BY <2>1, <2>2 DEF Reaped, Inactive
  <2>5. History'
    BY <2>1 DEF PodInv, History
  <2>6. LateAdoptions'
    BY <2>1 DEF PodInv, LateAdoptions, Tracks
  <2> QED
    BY <2>3, <2>4, <2>5, <2>6 DEF PodInv
<1> QED
  BY Zenon, <1>1, <1>2

(* What the worker sent when it died, it had reason to send.               *)
LEMMA RestartKeeps ==
    ASSUME TypeOK, PodInv, Restart
    PROVE  PodInv'
<1>0. pods = podLog[Len(podLog)] /\ Len(podLog) \in 1..Len(podLog)
  BY Indices DEF pods
<1>1. /\ podLog' = <<pods>> /\ pc' = "idle" /\ view' = NoPods
      /\ late' = late \/ \E r \in InFlight : late' = late \union {r}
  BY DEF Restart, Reset
<1>2. LogChange
  BY <1>1 DEF LogChange
<1>3. History'
  BY <1>2, LogStep DEF PodInv
<1>4. \A a, q : Tracks(a, q) => Tracks(a, q)'
  <2>1. Len(podLog') = 1 /\ podLog'[1] = podLog[Len(podLog)]
    BY <1>0, <1>1
  <2>2. \A i \in 1..Len(podLog') : i = 1
    BY <2>1
  <2> QED
    BY <1>0, <2>1, <2>2 DEF Tracks
<1>5. Listed' /\ Adoptable' /\ Reaped'
  BY <1>1 DEF Listed, Adoptable, Reaped, NoPods
<1>6. ASSUME NEW r \in InFlight, r.at = "claim", NEW q \in r.on
      PROVE  r.seen.owner = NoOwner /\ Tracks(r.seen, q)
  <2>1. CASE \E p \in AboutPods : r = [at |-> pc, inst |-> inst, on |-> {p}, seen |-> view[p]]
    <3>1. PICK p \in AboutPods : r = [at |-> pc, inst |-> inst, on |-> {p}, seen |-> view[p]]
      BY <2>1
    <3>2. pc = "claim" /\ q = p /\ r.seen = view[p] /\ p \in todo /\ p \in Pods
      BY <1>6, <3>1 DEF AboutPods, TypeOK
    <3>3. view[p] # NoPod /\ view[p].owner = NoOwner /\ Tracks(view[p], p)
      BY <3>2 DEF PodInv, Adoptable, Listed
    <3> QED
      BY <3>2, <3>3
  <2>2. CASE r = [at |-> pc, inst |-> inst, on |-> {}, seen |-> NoPod]
    BY <1>6, <2>2
  <2> QED
    BY <2>1, <2>2 DEF InFlight
<1>7. LateAdoptions'
  <2> SUFFICES ASSUME NEW r \in late', r.at = "claim", NEW q \in r.on
               PROVE  r.seen.owner = NoOwner /\ Tracks(r.seen, q)'
    BY DEF LateAdoptions
  <2>1. r \in late \/ r \in InFlight
    BY <1>1
  <2>2. r \in late => r.seen.owner = NoOwner /\ Tracks(r.seen, q)
    BY DEF PodInv, LateAdoptions
  <2> QED
    BY <1>4, <1>6, <2>1, <2>2
<1> QED
  BY <1>3, <1>5, <1>7 DEF PodInv

(* A step of the worker keeps the invariant.                               *)
LEMMA ReconcileKeeps ==
    ASSUME TypeOK, PodInv, Reconcile
    PROVE  PodInv'
<1> USE DEF Narrows
<1>0. LogChange
  BY ReconcileLog
<1>1. ASSUME Reset, UNCHANGED late PROVE Narrows
  BY <1>1 DEF Reset, NoPods
<1>2. CASE GetService \/ GetServiceFails
  <2>1. Narrows
    BY <1>2 DEF GetService, GetServiceFails, locals
  <2> QED
    BY <1>0, <2>1, NarrowingKeeps
<1>3. CASE ListPodsFails \/ RemoveFinalizer \/ CreatePod \/ KeepPods
  <2>1. Narrows
    BY <1>1, <1>3 DEF ListPodsFails, RemoveFinalizer, CreatePod, KeepPods, Return
  <2> QED
    BY <1>0, <2>1, NarrowingKeeps
<1>4. CASE CanAdoptOnce \/ \E p \in Pods : Adopt(p) \/ Delete(p)
  <2>1. Narrows
    BY <1>4 DEF CanAdoptOnce, Adopt, Delete
  <2> QED
    BY <1>0, <2>1, NarrowingKeeps
<1>5. CASE Decide
  <2>1. Narrows
    BY <1>1, <1>5 DEF Decide, Return
  <2> QED
    BY <1>0, <2>1, NarrowingKeeps
<1>6. CASE AddFinalizer
  <2>1. Narrows
    BY <1>1, <1>6 DEF AddFinalizer, Return, locals
  <2> QED
    BY <1>0, <2>1, NarrowingKeeps
<1> QED
  BY <1>2, <1>3, <1>4, <1>5, <1>6, ListPodsKeeps, ClaimedKeeps DEF Reconcile

(* So does every other step.                                               *)
LEMMA NextKeeps == TypeOK /\ PodInv /\ [Next]_vars => PodInv'
<1> SUFFICES ASSUME TypeOK, PodInv, [Next]_vars PROVE PodInv'
  OBVIOUS
<1> USE DEF locals
<1>1. ASSUME UNCHANGED <<view, pc, todo>>, late' \subseteq late PROVE Narrows
  BY <1>1 DEF Narrows
<1>2. CASE Reconcile
  BY <1>2, ReconcileKeeps
<1>3. CASE Restart
  BY <1>3, RestartKeeps
<1>4. CASE Manager /\ ~Restart
  <2>1. UNCHANGED worker
    BY <1>4 DEF Manager, DeliverService, DeliverPod, RelistServices, RelistPods,
                BackoffExpires, Resync
  <2> QED
    BY <1>1, <1>4, <2>1, ManagerLog, NarrowingKeeps DEF worker
<1>5. CASE LateRequest
  BY <1>1, <1>5, LateLog, LateWrite, NarrowingKeeps
<1>6. CASE Others
  BY <1>1, <1>6, OthersLog, OthersWrite, NarrowingKeeps DEF manager, worker
<1>7. CASE UNCHANGED vars
  BY <1>1, <1>7, NarrowingKeeps DEF vars, LogChange
<1> QED
  BY <1>2, <1>3, <1>4, <1>5, <1>6, <1>7 DEF Next

(* A history of one version.                                               *)
LEMMA Singleton == \A a : Len(<<a>>) = 1 /\ <<a>>[1] = a
  OBVIOUS

(* Nothing is listed at first.                                             *)
LEMMA InitPods == Init => PodInv
<1> SUFFICES ASSUME Init PROVE PodInv
  OBVIOUS
<1>1. podLog = <<NoPods>> /\ Len(podLog) = 1 /\ podLog[1] = NoPods
  BY Singleton DEF Init
<1>2. \A i \in 1..Len(podLog) : i = 1
  BY <1>1
<1>3. \A q \in Pods : Real(NoPods[q]) /\ Follows(NoPods[q], NoPods[q])
  BY DEF NoPods, Real, Follows
<1>4. History
  BY <1>1, <1>2, <1>3 DEF History
<1>5. Listed /\ Adoptable /\ Reaped /\ LateAdoptions
  BY DEF Init, Listed, Adoptable, Reaped, LateAdoptions, NoPods
<1> QED
  BY <1>4, <1>5 DEF PodInv

-----------------------------------------------------------------------------
(* The theorems.                                                           *)

(* What the worker, and requests it left behind, refer to are pods as they *)
(* once were, in every reachable state.                                    *)
LEMMA PodInvariant == Spec => [](TypeOK /\ PodInv)
<1>1. Init => TypeOK /\ PodInv
  BY InitType, InitPods
<1>2. TypeOK /\ PodInv /\ [Next]_vars => (TypeOK /\ PodInv)'
  BY NextType, NextKeeps
<1> QED
  BY <1>1, <1>2, PTL DEF Spec

(* The loop over inactivePods never deletes a pod that runs, however old   *)
(* the list it works from (service_controller.go:133-139): a pod that has  *)
(* ended stays so, and names are not used again while anyone refers to     *)
(* them.                                                                   *)
THEOREM ReapsTheDead == Spec => []ReapsOnlyInactive
<1>1. TypeOK /\ PodInv => ReapsOnlyInactive
  BY Indices DEF PodInv, Reaped, Inactive, ReapsOnlyInactive, pods
<1> QED
  BY <1>1, PodInvariant, PTL

(* A pod keeps its foreign controller: an adoption from an old list, or by *)
(* a process that is gone, is refused (refmanager.go:140-162), and nobody  *)
(* else takes a controller away that is not a Service's.                   *)
THEOREM ForeignPodsAreSafe == Spec => ForeignOwnerKept
<1> DEFINE Kept == \A p \in Pods : pods[p].owner = Foreign =>
                      pods'[p].owner = Foreign \/ pods'[p] = NoPod
<1>1. ASSUME TypeOK, PodInv, LogChange PROVE Kept
  <2>1. CASE UNCHANGED podLog
    BY <2>1 DEF pods
  <2>2. CASE Len(podLog) > 1 /\ podLog' = Tail(podLog)
    <3>1. podLog \in Seq([Pods -> Pod]) /\ Len(podLog) \in Nat
      BY <1>1, Ends DEF TypeOK
    <3>2. /\ Len(podLog') = Len(podLog) - 1
          /\ \A i \in 1..(Len(podLog) - 1) : podLog'[i] = podLog[i + 1]
      BY <2>2, <3>1, LogTail
    <3>3. Len(podLog) - 1 \in 1..(Len(podLog) - 1) /\ Len(podLog) - 1 + 1 = Len(podLog)
      BY <2>2, <3>1
    <3>4. podLog'[Len(podLog')] = podLog[Len(podLog)]
      BY <3>2, <3>3
    <3> QED
      BY <3>4 DEF pods
  <2>3. CASE podLog' = <<pods>>
    <3>1. pods' = pods
      BY <2>3 DEF pods
    <3> QED
      BY <3>1
  <2>4. ASSUME NEW q \in Pods, NEW pod \in Pod, PutPod(q, pod), Rewrites(q, pod) PROVE Kept
    <3>1. pods' = [pods EXCEPT ![q] = pod] /\ pods \in [Pods -> Pod]
      BY <1>1, <2>4, PutPodEffect, Ends
    <3>2. Free(q) => pods[q] = NoPod
      BY <1>1, Indices DEF Free, pods
    <3>3. NoPod.owner # Foreign
      BY OwnerAssumption DEF NoPod
    <3>4. pods[q].owner = Foreign => pod.owner = Foreign \/ pod = NoPod
      <4>1. CASE Free(q)
        BY <3>2, <3>3, <4>1
      <4>2. CASE ~Free(q)
        BY <2>4, <4>2 DEF Rewrites
      <4> QED
        BY <4>1, <4>2
    <3>5. \A p \in Pods : pods'[p] = IF p = q THEN pod ELSE pods[p]
      BY <3>1
    <3> QED
      BY <3>4, <3>5
  <2> QED
    BY <1>1, <2>1, <2>2, <2>3, <2>4 DEF LogChange
<1>2. TypeOK /\ PodInv /\ [Next]_vars => [Kept]_vars
  <2> SUFFICES ASSUME TypeOK, PodInv, Next PROVE Kept
    OBVIOUS
  <2>1. LogChange
    BY ReconcileLog, ManagerLog, LateLog, OthersLog DEF Next
  <2> QED
    BY <1>1, <2>1
<1>3. Spec => [][Kept]_vars
  BY <1>2, PodInvariant, PTL DEF Spec
<1> QED
  BY <1>3 DEF ForeignOwnerKept

-----------------------------------------------------------------------------
(* The writes of the Service.                                              *)

(* The writes that a stored Service still gives cause for: one of ours     *)
(* unless its finalizer is as it should be, and one for each finalizer of  *)
(* another controller.                                                     *)
OtherFins(s) == s.fins \ {Tracking}
Due(s) == IF Wanted(s) <=> Tracking \in s.fins THEN 0 ELSE 1
Owed(s) == Due(s) + Cardinality(OtherFins(s))

(* What one step of a user can give cause for.                             *)
Price == 2 + Cardinality(OtherFinalizers)

PaidInv == svc.rv + Owed(svc) <= Price * Spent("edit") /\ fuel["edit"] <= Fuel["edit"]

(* Debts are numbers, and those to other controllers are bounded.          *)
LEMMA OwedType ==
    /\ Price \in Nat /\ Price >= 2
    /\ \A s \in Service : /\ IsFiniteSet(OtherFins(s))
                          /\ Due(s) \in {0, 1} /\ Cardinality(OtherFins(s)) \in Nat
                          /\ Cardinality(OtherFins(s)) <= Price - 2
                          /\ Owed(s) \in Nat
<1>1. Cardinality(OtherFinalizers) \in Nat
  BY FS_CardinalityType, ServiceAssumption
<1>2. Price \in Nat /\ Price >= 2 /\ Price - 2 = Cardinality(OtherFinalizers)
  BY <1>1 DEF Price
<1>3. ASSUME NEW s \in Service
      PROVE  /\ IsFiniteSet(OtherFins(s))
             /\ Due(s) \in {0, 1} /\ Cardinality(OtherFins(s)) \in Nat
             /\ Cardinality(OtherFins(s)) <= Price - 2
             /\ Owed(s) \in Nat
  <2>1. OtherFins(s) \in SUBSET OtherFinalizers
    BY DEF Service, Finalizers, OtherFins
  <2>2. IsFiniteSet(OtherFins(s)) /\ Cardinality(OtherFins(s)) <= Price - 2
    BY <1>2, <2>1, FS_Subset, ServiceAssumption
  <2>3. Cardinality(OtherFins(s)) \in Nat /\ Due(s) \in {0, 1}
    BY <2>2, FS_CardinalityType DEF Due
  <2> QED
    BY <2>2, <2>3 DEF Owed
<1> QED
  BY <1>2, <1>3

(* A Service that goes away with its last finalizer owes nothing, and any  *)
(* other write what the Service written owes.                              *)
LEMMA OwedAfterWrite ==
    ASSUME TypeOK, NEW s \in Service, PutService(s), svc' # svc
    PROVE  svc'.rv = svc.rv + 1 /\ Owed(svc') <= Owed(s) /\ Owed(svc') \in Nat
<1>1. svc'.rv = svc.rv + 1
  BY Zenon, PutServiceEffect DEF svc
<1>2. Owed(s) \in Nat
  BY OwedType
<1>3. CASE svc'.fins = {} /\ ~svc'.lb
  <2>1. OtherFins(svc') = {} /\ Due(svc') = 0
    BY <1>3 DEF OtherFins, Due, Wanted
  <2> QED
    BY <1>1, <1>2, <2>1, FS_EmptySet DEF Owed
<1>4. CASE svc'.fins = s.fins /\ svc'.lb = s.lb /\ svc'.ann = s.ann /\ svc'.del = s.del
  <2>1. OtherFins(svc') = OtherFins(s) /\ Due(svc') = Due(s)
    BY <1>4 DEF OtherFins, Due, Wanted
  <2> QED
    BY <1>1, <1>2, <2>1 DEF Owed
<1> QED
  BY Zenon, <1>3, <1>4, ProtocolWrite

(* A write of the reconciler, on time or late, clears one debt.            *)
LEMMA ReconcilerPays ==
    ASSUME TypeOK, GuardInv, Reconcile \/ LateRequest, svc' # svc
    PROVE  svc'.rv = svc.rv + 1 /\ Owed(svc') \in Nat /\ Owed(svc') + 1 <= Owed(svc)
<1>0. svc \in Service /\ svc.rv \in Nat
  BY Ends DEF Service
<1>1. Due(svc) = 1
  <2>1. CASE Protocol!Guard
    BY <2>1 DEF Protocol!Guard, Due, Wanted
  <2>2. CASE Protocol!LetGo
    BY <2>2 DEF Protocol!LetGo, Due, Wanted
  <2> QED
    BY <2>1, <2>2, ReconcilerProtocol
<1>2. Cardinality(OtherFins(svc)) \in Nat
  BY <1>0, OwedType
<1>3. CASE svc.del /\ svc' = NoService(svc.rv + 1)
  <2>1. svc'.rv = svc.rv + 1 /\ OtherFins(svc') = {} /\ Due(svc') = 0
    BY <1>3 DEF NoService, OtherFins, Due, Wanted
  <2> QED
    BY <1>1, <1>2, <2>1, FS_EmptySet DEF Owed
<1>4. CASE \E fins \in SUBSET Finalizers :
              /\ fins \ {Tracking} = svc.fins \ {Tracking}
              /\ svc' = [svc EXCEPT !.fins = fins, !.rv = @ + 1]
  <2>1. svc'.rv = svc.rv + 1 /\ OtherFins(svc') = OtherFins(svc)
    BY <1>0, <1>4 DEF Service, OtherFins
  <2>2. svc'.lb = svc.lb /\ svc'.ann = svc.ann /\ svc'.del = svc.del
    BY Zenon, <1>0, <1>4 DEF Service
  <2>3. Tracking \in svc'.fins <=> Tracking \notin svc.fins
    <3>1. ASSUME Tracking \in svc'.fins <=> Tracking \in svc.fins PROVE FALSE
      <4>1. svc'.fins = svc.fins
        BY <1>0, <1>4, <3>1 DEF Service
      <4> QED
        BY <4>1, ReconcilerProtocol, <2>2 DEF Protocol!Guard, Protocol!LetGo, Protocol!Absent, Wanted
    <3> QED
      BY <3>1
  <2>4. Due(svc') = 0
    BY <1>1, <2>2, <2>3 DEF Due, Wanted
  <2> QED
    BY <1>1, <1>2, <2>1, <2>4 DEF Owed
<1> QED
  BY Zenon, <1>3, <1>4, ReconcilerFinalizes DEF Finalized

(* So does a finalizer of another controller that goes.                    *)
LEMMA DropPays ==
    ASSUME TypeOK, DropOtherFinalizer, svc' # svc
    PROVE  svc'.rv = svc.rv + 1 /\ Owed(svc') \in Nat /\ Owed(svc') + 1 <= Owed(svc)
<1>1. PICK f \in svc.fins \ {Tracking} : PutService([svc EXCEPT !.fins = @ \ {f}])
  BY Zenon DEF DropOtherFinalizer
<1> DEFINE s == [svc EXCEPT !.fins = @ \ {f}]
<1>2. svc \in Service
  BY Ends
<1>3. s \in Service /\ s.fins = svc.fins \ {f} /\ s.lb = svc.lb /\ s.ann = svc.ann /\ s.del = svc.del
  BY <1>2 DEF Service
<1>4. Due(s) = Due(svc)
  <2>1. Wanted(s) <=> Wanted(svc)
    BY <1>3 DEF Wanted
  <2>2. Tracking \in s.fins <=> Tracking \in svc.fins
    BY <1>3
  <2> QED
    BY <2>1, <2>2 DEF Due
<1>5. Cardinality(OtherFins(s)) = Cardinality(OtherFins(svc)) - 1
  <2>1. OtherFins(s) = OtherFins(svc) \ {f} /\ f \in OtherFins(svc)
    BY <1>3 DEF OtherFins
  <2>2. IsFiniteSet(OtherFins(svc))
    BY <1>2, OwedType
  <2>3. Cardinality(OtherFins(svc) \ {f}) = Cardinality(OtherFins(svc)) - 1
    <3> HIDE DEF s
    <3> QED
      BY <2>1, <2>2, FS_RemoveElement
  <2> QED
    BY Zenon, <2>1, <2>3
<1>6. svc'.rv = svc.rv + 1 /\ Owed(svc') <= Owed(s) /\ Owed(svc') \in Nat
  <2> HIDE DEF s
  <2> QED
    BY <1>1, <1>3, OwedAfterWrite DEF s
<1>7. Due(svc) \in {0, 1} /\ Cardinality(OtherFins(svc)) \in Nat
  BY <1>2, OwedType
<1> QED
  BY <1>4, <1>5, <1>6, <1>7 DEF Owed

(* A step of a user gives cause for no more than its price.                *)
LEMMA UserOwes ==
    ASSUME TypeOK, CreateService \/ EditService \/ DeleteService, svc' # svc
    PROVE  svc'.rv = svc.rv + 1 /\ Owed(svc') \in Nat /\ Owed(svc') + 1 <= Owed(svc) + Price
<1>0. svc \in Service
  BY Ends
<1>1. /\ Price \in Nat /\ Price >= 2
      /\ Owed(svc) \in Nat /\ Due(svc) \in {0, 1} /\ Cardinality(OtherFins(svc)) \in Nat
  BY <1>0, OwedType
<1>2. CASE CreateService
  <2>1. PICK lb \in BOOLEAN, ann \in BOOLEAN, fins \in SUBSET OtherFinalizers :
           PutService([uid |-> svc.rv + 1, rv |-> 0, lb |-> lb, ann |-> ann,
                       fins |-> fins, del |-> FALSE])
    BY Zenon, <1>2 DEF CreateService
  <2> DEFINE s == [uid |-> svc.rv + 1, rv |-> 0, lb |-> lb, ann |-> ann,
                   fins |-> fins, del |-> FALSE]
  <2>2. s \in Service
    BY <1>0 DEF Service, Finalizers
  <2> HIDE DEF s
  <2>3. svc'.rv = svc.rv + 1 /\ Owed(svc') <= Owed(s) /\ Owed(svc') \in Nat
    BY <2>1, <2>2, OwedAfterWrite DEF s
  <2>4. /\ Owed(s) \in Nat /\ Due(s) \in {0, 1} /\ Cardinality(OtherFins(s)) \in Nat
        /\ Cardinality(OtherFins(s)) <= Price - 2
    BY <2>2, OwedType
  <2>5. Owed(s) <= Price - 1
    BY <1>1, <2>4 DEF Owed
  <2> QED
    BY <1>1, <2>3, <2>4, <2>5
<1>3. ASSUME NEW s \in Service, s.fins = svc.fins, PutService(s)
      PROVE  svc'.rv = svc.rv + 1 /\ Owed(svc') \in Nat /\ Owed(svc') + 1 <= Owed(svc) + Price
  <2>1. svc'.rv = svc.rv + 1 /\ Owed(svc') <= Owed(s) /\ Owed(svc') \in Nat
    BY <1>3, OwedAfterWrite
  <2>2. OtherFins(s) = OtherFins(svc)
    BY Zenon, <1>3 DEF OtherFins
  <2>3. Owed(s) <= Owed(svc) + 1
    BY <1>1, <2>2, OwedType DEF Owed
  <2>4. Owed(s) \in Nat
    BY OwedType
  <2> QED
    BY <1>1, <2>1, <2>3, <2>4
<1>4. CASE EditService
  <2>1. PICK lb \in BOOLEAN, ann \in BOOLEAN : PutService([svc EXCEPT !.lb = lb, !.ann = ann])
    BY Zenon, <1>4 DEF EditService
  <2> DEFINE s == [svc EXCEPT !.lb = lb, !.ann = ann]
  <2>2. s \in Service /\ s.fins = svc.fins
    BY Zenon, <1>0 DEF Service
  <2>3. PutService(s)
    BY Zenon, <2>1
  <2> HIDE DEF s
  <2> QED
    BY <1>3, <2>2, <2>3
<1>5. CASE DeleteService
  <2> DEFINE s == [svc EXCEPT !.del = TRUE]
  <2>1. s \in Service /\ s.fins = svc.fins /\ PutService(s)
    BY Zenon, <1>0, <1>5 DEF Service, DeleteService
  <2> HIDE DEF s
  <2> QED
    BY <1>3, <2>1
<1> QED
  BY <1>2, <1>4, <1>5

(* Only the steps of users spend edits.                                    *)
LEMMA EditsSpent ==
    ASSUME TypeOK, Next, ~(CreateService \/ EditService \/ DeleteService)
    PROVE  fuel'["edit"] = fuel["edit"]
<1>1. ASSUME NEW d \in {"pod", "fault", "crash", "gap"}, Spend(d)
      PROVE  fuel'["edit"] = fuel["edit"]
  BY <1>1, SpendType DEF Disturbances
<1>2. CASE Reconcile
  <2>1. ASSUME NEW s, NEW ok, UpdateService(s, ok) PROVE fuel'["edit"] = fuel["edit"]
    BY <1>1, <2>1 DEF UpdateService, Answer, Lost
  <2>2. ASSUME NEW p \in Pods, Adopt(p) \/ Delete(p) PROVE fuel'["edit"] = fuel["edit"]
    BY <1>1, <2>2 DEF Adopt, Delete, UpdateOwner, DeletePod, Answer, Lost
  <2>3. CASE RemoveFinalizer \/ AddFinalizer
    BY Zenon, <2>1, <2>3 DEF RemoveFinalizer, AddFinalizer
  <2>4. CASE CreatePod
    BY <1>1, <2>4 DEF CreatePod, Answer, Lost
  <2>5. CASE GetServiceFails \/ ListPodsFails \/ CanAdoptOnce
    BY Zenon, <1>1, <2>5 DEF GetServiceFails, ListPodsFails, CanAdoptOnce
  <2>6. CASE GetService \/ ListPods \/ Claimed \/ Decide \/ KeepPods
    BY Zenon, <2>6 DEF GetService, ListPods, Claimed, Decide, KeepPods
  <2> QED
    BY <1>2, <2>2, <2>3, <2>4, <2>5, <2>6 DEF Reconcile
<1>3. CASE Manager
  BY Zenon, <1>1, <1>3 DEF Manager, DeliverService, DeliverPod, RelistServices, RelistPods, BackoffExpires,
                           Resync, Restart
<1>4. CASE LateRequest
  BY <1>4 DEF LateRequest
<1>5. CASE Others
  BY Zenon, <1>1, <1>5 DEF Others, DropOtherFinalizer, CreateOtherPod, ChangeOwner, FinishPod, KillPod,
                           RemovePod, CollectGarbage
<1> QED
  BY <1>2, <1>3, <1>4, <1>5 DEF Next

(* One more edit pays for one more price.                                  *)
LEMMA OneMoreEdit ==
    ASSUME NEW price \in Nat, NEW n \in Nat
    PROVE  price * (n + 1) = price * n + price /\ price * n \in Nat
  OBVIOUS

(* No step runs up a debt that no edit pays for.                           *)
LEMMA NextPaid == TypeOK /\ GuardInv /\ PaidInv /\ [Next]_vars => PaidInv'
<1> SUFFICES ASSUME TypeOK, GuardInv, PaidInv, [Next]_vars PROVE PaidInv'
  OBVIOUS
<1> DEFINE edits == Spent("edit")
           paid == Price * edits
<1>0. svc \in Service /\ svc.rv \in Nat /\ Owed(svc) \in Nat /\ Price \in Nat
  BY Ends, OwedType DEF Service
<1>1. fuel["edit"] \in Nat /\ Fuel["edit"] \in Nat /\ fuel["edit"] <= Fuel["edit"]
  BY ServiceAssumption DEF TypeOK, Disturbances, PaidInv
<1>2. edits \in Nat /\ paid \in Nat /\ svc.rv + Owed(svc) <= paid
  BY <1>0, <1>1, OneMoreEdit DEF Spent, PaidInv
<1>3. ASSUME fuel'["edit"] = fuel["edit"],
             svc'.rv + Owed(svc') <= svc.rv + Owed(svc), svc'.rv + Owed(svc') \in Nat
      PROVE  PaidInv'
  <2>1. edits' = edits /\ Price' = Price
    BY <1>3 DEF Spent, Price
  <2>2. svc'.rv + Owed(svc') <= paid
    BY <1>0, <1>2, <1>3
  <2> QED
    BY <1>1, <1>3, <2>1, <2>2 DEF PaidInv, Owed, Due, OtherFins, Wanted
<1>4. ASSUME fuel'["edit"] = fuel["edit"] - 1, fuel["edit"] > 0,
             svc'.rv + Owed(svc') <= svc.rv + Owed(svc) + Price, svc'.rv + Owed(svc') \in Nat
      PROVE  PaidInv'
  <2>1. edits' = edits + 1 /\ Price' = Price /\ fuel'["edit"] <= Fuel["edit"]
    BY <1>1, <1>4 DEF Spent, Price
  <2>2. Price * (edits + 1) = paid + Price
    BY <1>0, <1>2, OneMoreEdit
  <2>3. svc'.rv + Owed(svc') <= paid + Price
    BY <1>0, <1>2, <1>4
  <2> QED
    BY <2>1, <2>2, <2>3 DEF PaidInv, Owed, Due, OtherFins, Wanted
<1> HIDE DEF edits, paid
<1>5. CASE Next /\ (CreateService \/ EditService \/ DeleteService)
  <2>1. Spend("edit") /\ "edit" \in Disturbances
    BY Zenon, <1>5 DEF CreateService, EditService, DeleteService, Disturbances
  <2>2. fuel'["edit"] = fuel["edit"] - 1
    BY <2>1, SpendType
  <2>3. fuel["edit"] > 0
    BY <2>1 DEF Spend
  <2>4. CASE svc' = svc
    BY <1>0, <1>4, <2>2, <2>3, <2>4
  <2>5. CASE svc' # svc
    <3>1. svc'.rv = svc.rv + 1 /\ Owed(svc') \in Nat /\ Owed(svc') + 1 <= Owed(svc) + Price
      BY <1>5, <2>5, UserOwes
    <3> QED
      BY <1>0, <1>4, <2>2, <2>3, <3>1
  <2> QED
    BY <2>4, <2>5
<1>6. CASE Next /\ ~(CreateService \/ EditService \/ DeleteService)
  <2>1. fuel'["edit"] = fuel["edit"]
    BY <1>6, EditsSpent
  <2>2. CASE svc' = svc
    BY <1>0, <1>3, <2>1, <2>2
  <2>3. CASE svc' # svc
    <3>1. Reconcile \/ LateRequest \/ DropOtherFinalizer
      <4>1. ASSUME NEW p \in Pods,
                   \/ CreateOtherPod(p) \/ ChangeOwner(p) \/ FinishPod(p)
                   \/ KillPod(p) \/ RemovePod(p) \/ CollectGarbage(p)
            PROVE  FALSE
        BY <2>3, <4>1 DEF CreateOtherPod, ChangeOwner, FinishPod, KillPod, RemovePod, CollectGarbage, svc
      <4> QED
        BY Zenon, <1>6, <2>3, <4>1, ManagerKeepsService DEF Next, Others
    <3>2. svc'.rv = svc.rv + 1 /\ Owed(svc') \in Nat /\ Owed(svc') + 1 <= Owed(svc)
      BY Zenon, <2>3, <3>1, ReconcilerPays, DropPays
    <3> QED
      BY <1>0, <1>3, <2>1, <3>2
  <2> QED
    BY <2>2, <2>3
<1>7. CASE UNCHANGED vars
  <2>1. svc' = svc /\ fuel'["edit"] = fuel["edit"]
    BY <1>7 DEF vars, svc
  <2> QED
    BY <1>0, <1>3, <2>1
<1> QED
  BY <1>5, <1>6, <1>7

(* The users of a Service pay for all its versions: the reconciler, which  *)
(* is woken by its own updates, never writes the Service more than once    *)
(* for an edit, however stale its caches are and whatever requests of dead *)
(* processes arrive.                                                       *)
THEOREM NoWriteLoop == Spec => []ServiceWritesPaidFor
<1>1. Init => PaidInv
  <2> SUFFICES ASSUME Init PROVE PaidInv
    OBVIOUS
  <2>1. svc.rv = 0 /\ ~svc.lb /\ svc.fins = {} /\ fuel = Fuel
    BY DEF Init, svc, NoService
  <2>2. Owed(svc) = 0
    BY <2>1, FS_EmptySet DEF Owed, Due, Wanted, OtherFins
  <2>3. Fuel["edit"] \in Nat
    BY ServiceAssumption DEF Disturbances
  <2>4. Spent("edit") = 0 /\ Price * 0 = 0
    BY <2>1, <2>3, OwedType DEF Spent
  <2> QED
    BY <2>1, <2>2, <2>3, <2>4 DEF PaidInv
<1>2. TypeOK /\ PaidInv => ServiceWritesPaidFor
  <2> SUFFICES ASSUME TypeOK, PaidInv PROVE ServiceWritesPaidFor
    OBVIOUS
  <2>1. svc.rv \in Nat /\ Owed(svc) \in Nat /\ Price \in Nat
    BY Ends, OwedType DEF Service
  <2>2. Spent("edit") \in Nat
    BY ServiceAssumption DEF TypeOK, Disturbances, PaidInv, Spent
  <2>3. Price * Spent("edit") \in Nat
    BY <2>1, <2>2, OneMoreEdit
  <2>4. svc.rv <= Price * Spent("edit")
    BY <2>1, <2>3 DEF PaidInv
  <2> QED
    BY <2>4 DEF ServiceWritesPaidFor, Price
<1> QED
  BY <1>1, <1>2, NextPaid, GuardInvariant, PTL DEF Spec

-----------------------------------------------------------------------------
(* Work on overtaken reads.                                                *)

(* The running pods of the Service in hand that the cache shows.           *)
Showing == {p \in Pods : /\ Selected(cachedPods[p], inst.uid) /\ IsPodActive(cachedPods[p])
                         /\ cachedPods[p].owner = inst.uid}

(* Reconcile goes on with the Service it read and the pods it claimed.     *)
GoesOn == /\ pc \notin {"idle", "list"} /\ UNCHANGED <<inst, queued>>
          /\ claimed \subseteq claimed'

(* What a step of Reconcile does to what it has read.                      *)
LEMMA ReconcileReads ==
    ASSUME TypeOK, Reconcile
    PROVE  \/ pc' = "idle" \/ ListPods \/ GoesOn
           \/ pc' = "list" /\ inst' = cachedSvc
<1>1. CASE GetService \/ GetServiceFails
  BY Zenon, <1>1 DEF GetService, GetServiceFails
<1>2. CASE ListPods
  BY <1>2
<1>3. CASE CanAdoptOnce
  BY <1>3 DEF CanAdoptOnce, GoesOn
<1>4. ASSUME NEW p \in Pods, Adopt(p) PROVE GoesOn
  BY <1>4 DEF Adopt, GoesOn
<1>5. ASSUME NEW p \in Pods, Delete(p) PROVE GoesOn
  BY <1>5 DEF Delete, GoesOn
<1>6. ASSUME NEW ok, Return(ok) PROVE pc' = "idle"
  BY <1>6 DEF Return, Reset
<1>7. CASE ListPodsFails \/ CreatePod \/ KeepPods \/ RemoveFinalizer
  BY Zenon, <1>6, <1>7 DEF ListPodsFails, CreatePod, KeepPods, RemoveFinalizer
<1>8. CASE Claimed
  <2>1. pc' = "idle" \/ UNCHANGED <<inst, queued, claimed>>
    BY Zenon, <1>6, <1>8 DEF Claimed
  <2>2. pc = "claim"
    BY <1>8 DEF Claimed
  <2> QED
    BY <2>1, <2>2 DEF GoesOn
<1>9. CASE Decide
  <2>1. pc' = "idle" \/ UNCHANGED <<inst, queued, claimed>>
    BY Zenon, <1>6, <1>9 DEF Decide
  <2>2. pc = "reap"
    BY <1>9 DEF Decide
  <2> QED
    BY <2>1, <2>2 DEF GoesOn
<1>10. CASE AddFinalizer
  <2>1. pc' = "idle" \/ UNCHANGED <<inst, queued, claimed>>
    BY Zenon, <1>6, <1>10 DEF AddFinalizer, locals
  <2>2. pc = "guard"
    BY <1>10 DEF AddFinalizer
  <2> QED
    BY <2>1, <2>2 DEF GoesOn
<1> QED
  BY <1>1, <1>2, <1>3, <1>4, <1>5, <1>7, <1>8, <1>9, <1>10 DEF Reconcile

(* Writes reach the caches only when they are delivered.                   *)
LEMMA WritesKeepCaches ==
    ASSUME TypeOK, Reconcile \/ Outside
    PROVE  cachedSvc' = cachedSvc /\ cachedPods' = cachedPods
<1>0. 1 \in 1..Len(svcLog) /\ 1 \in 1..Len(podLog)
  BY Indices
<1>1. CASE Outside
  <2>1. OneWrite \/ UNCHANGED <<svcLog, podLog>>
    BY <1>1, OutsideWrite
  <2>2. ASSUME NEW s \in Service, PutService(s) PROVE svcLog'[1] = svcLog[1]
    BY <1>0, <2>2, PutServiceEffect
  <2>3. ASSUME NEW p \in Pods, NEW pod \in Pod, PutPod(p, pod) PROVE podLog'[1] = podLog[1]
    BY <1>0, <2>3, PutPodEffect
  <2> QED
    BY Zenon, <2>1, <2>2, <2>3 DEF OneWrite, cachedSvc, cachedPods
<1>2. CASE Reconcile
  <2>1. podLog'[1] = podLog[1]
    BY <1>0, <1>2, ReconcilePods DEF Appended
  <2>2. ASSUME NEW s \in Service, NEW ok, UpdateService(s, ok) PROVE svcLog'[1] = svcLog[1]
    <3>1. UNCHANGED svcLog \/ PutService(s)
      BY <2>2 DEF UpdateService
    <3> QED
      BY <1>0, <3>1, PutServiceEffect
  <2>3. /\ [inst EXCEPT !.fins = @ \ {Tracking}] \in Service
        /\ [inst EXCEPT !.fins = @ \union {Tracking}] \in Service
    <3>1. inst \in Service /\ inst.fins \ {Tracking} \in SUBSET Finalizers
          /\ inst.fins \union {Tracking} \in SUBSET Finalizers
      BY DEF TypeOK, Service, Finalizers
    <3> QED
      BY <3>1 DEF Service
  <2>4. svcLog'[1] = svcLog[1]
    <3>1. CASE RemoveFinalizer \/ AddFinalizer
      BY Zenon, <2>2, <2>3, <3>1 DEF RemoveFinalizer, AddFinalizer
    <3>2. CASE ~(RemoveFinalizer \/ AddFinalizer)
      BY Zenon, <1>2, <3>2 DEF Reconcile, GetService, GetServiceFails, ListPods, ListPodsFails,
                  CanAdoptOnce, Adopt, Claimed, Delete, Decide, CreatePod, KeepPods
    <3> QED
      BY <3>1, <3>2
  <2> QED
    BY <2>1, <2>4 DEF cachedSvc, cachedPods
<1> QED
  BY <1>1, <1>2

(* A change of the cached pods that wakes nobody changes no pod of ours.   *)
LEMMA QuietShowing ==
    ASSUME TypeOK, ~Enqueues(cachedPods, cachedPods'), UNCHANGED inst
    PROVE  Showing' = Showing
<1>1. inst.uid \in Nat
  BY DEF TypeOK, Service
<1>2. ASSUME NEW p \in Pods, cachedPods[p].owner = inst.uid \/ cachedPods'[p].owner = inst.uid
      PROVE  cachedPods'[p] = cachedPods[p]
  BY <1>1, <1>2 DEF Enqueues
<1> QED
  BY <1>2 DEF Showing, Selected, IsPodActive

(* Whatever a step of the manager hides from Reconcile, it is called again.*)
LEMMA ManagerStale ==
    ASSUME TypeOK, GuardInv, StaleWorkIsRedone, Manager
    PROVE  StaleWorkIsRedone'
<1>0. StaleWorkIsRedone <=> (pc # "idle" /\ ~queued => inst = cachedSvc /\ (pc # "list" => Showing \subseteq claimed))
  BY DEF StaleWorkIsRedone, Showing
<1>1. ASSUME UNCHANGED <<pc, inst, claimed>>, ~queued' => /\ ~queued /\ ~Enqueues(cachedPods, cachedPods')
                                                          /\ pc # "idle" => cachedSvc' = cachedSvc
      PROVE  StaleWorkIsRedone'
  <2> SUFFICES ASSUME pc # "idle", ~queued'
               PROVE  inst' = cachedSvc' /\ (pc # "list" => Showing' \subseteq claimed')
    BY <1>1 DEF StaleWorkIsRedone, Showing
  <2>1. Showing' = Showing
    BY <1>1, QuietShowing
  <2> QED
    BY <1>0, <1>1, <2>1
<1>2. ASSUME NEW a PROVE ~Enqueues(a, a)
  BY DEF Enqueues
<1>3. Len(podLog) \in Nat /\ podLog \in Seq([Pods -> Pod]) /\ cachedPods = podLog[1]
  BY Ends DEF TypeOK, cachedPods
<1>4. CASE DeliverService \/ BackoffExpires \/ Resync
  <2>1. queued' = TRUE /\ UNCHANGED <<pc, inst, claimed>>
    BY <1>4 DEF DeliverService, BackoffExpires, Resync, worker, locals
  <2> QED
    BY <1>1, <2>1
<1>5. CASE DeliverPod
  <2>1. cachedPods' = podLog[2]
    BY <1>3, <1>5 DEF DeliverPod, cachedPods
  <2>2. /\ UNCHANGED <<svcLog, pc, inst, claimed>>
        /\ ~queued' => ~queued /\ ~Enqueues(cachedPods, cachedPods')
    BY Zenon, <1>3, <1>5, <2>1 DEF DeliverPod, worker, locals
  <2> QED
    BY <1>1, <2>2 DEF cachedSvc
<1>6. CASE RelistPods
  <2>1. cachedPods' = pods
    BY <1>6 DEF RelistPods, cachedPods
  <2>2. /\ UNCHANGED <<svcLog, pc, inst, claimed>>
        /\ ~queued' => ~queued /\ ~Enqueues(cachedPods, cachedPods')
    BY Zenon, <1>6, <2>1 DEF RelistPods, worker, locals
  <2> QED
    BY <1>1, <2>2 DEF cachedSvc
<1>7. CASE RelistServices
  <2>1. /\ UNCHANGED <<podLog, pc, inst, claimed>>
        /\ queued \/ cachedSvc.uid # 0 => queued'
    BY Zenon, <1>7 DEF RelistServices, worker, locals
  <2>2. pc # "idle" => inst.uid # 0
    BY DEF GuardInv, Versions
  <2>3. CASE pc = "idle"
    BY <2>1, <2>3 DEF StaleWorkIsRedone
  <2>4. CASE pc # "idle"
    <3>1. queued'
      BY <1>0, <2>1, <2>2, <2>4
    <3> QED
      BY <3>1 DEF StaleWorkIsRedone
  <2> QED
    BY <2>3, <2>4
<1>8. CASE Restart
  <2>1. pc' = "idle"
    BY <1>8 DEF Restart, Reset
  <2> QED
    BY <2>1 DEF StaleWorkIsRedone
<1> QED
  BY <1>4, <1>5, <1>6, <1>7, <1>8 DEF Manager

(* The steps of Reconcile and of everybody else.                           *)
LEMMA NextStale == TypeOK /\ GuardInv /\ StaleWorkIsRedone /\ [Next]_vars => StaleWorkIsRedone'
<1> SUFFICES ASSUME TypeOK, GuardInv, StaleWorkIsRedone, [Next]_vars PROVE StaleWorkIsRedone'
  OBVIOUS
<1>0. /\ StaleWorkIsRedone <=> (pc # "idle" /\ ~queued =>
                                   inst = cachedSvc /\ (pc # "list" => Showing \subseteq claimed))
      /\ StaleWorkIsRedone' <=> (pc' # "idle" /\ ~queued' =>
                                   inst' = cachedSvc' /\ (pc' # "list" => Showing' \subseteq claimed'))
  BY DEF StaleWorkIsRedone, Showing
<1>1. CASE Reconcile
  <2>1. cachedSvc' = cachedSvc /\ cachedPods' = cachedPods
    BY <1>1, WritesKeepCaches
  <2>2. CASE pc' = "idle"
    BY <1>0, <2>2
  <2>3. CASE pc' = "list" /\ inst' = cachedSvc
    BY <1>0, <2>1, <2>3
  <2>4. CASE GoesOn
    <3>1. Showing' = Showing
      BY <2>1, <2>4 DEF Showing, GoesOn
    <3> QED
      BY <1>0, <2>1, <2>4, <3>1 DEF GoesOn
  <2>5. CASE ListPods
    <3>1. UNCHANGED <<inst, queued>> /\ pc = "list"
      BY <2>5 DEF ListPods
    <3>2. inst.uid \in Nat /\ inst.uid # NoOwner
      BY ServiceAssumption DEF TypeOK, Service
    <3>3. Showing' = Showing
      BY <2>1, <3>1 DEF Showing
    <3>4. ASSUME NEW p \in Showing PROVE p \in claimed'
      <4>1. Claim(cachedPods[p], inst, TRUE) = "claim"
        <5>1. cachedPods[p].owner = inst.uid
          BY <3>4 DEF Showing
        <5> QED
          BY Zenon, <3>2, <5>1, ClaimSelected
      <4> QED
        BY Zenon, <2>5, <3>4, <4>1 DEF ListPods, Showing
    <3> QED
      BY <1>0, <2>1, <3>1, <3>3, <3>4
  <2> QED
    BY <1>1, <2>2, <2>3, <2>4, <2>5, ReconcileReads
<1>2. CASE Outside
  <2>1. cachedSvc' = cachedSvc /\ cachedPods' = cachedPods
    BY <1>2, WritesKeepCaches
  <2>2. UNCHANGED <<queued, pc, inst, claimed>>
    BY <1>2, OutsideWrite DEF locals
  <2>3. Showing' = Showing
    BY <2>1, <2>2 DEF Showing
  <2> QED
    BY <1>0, <2>1, <2>2, <2>3
<1>3. CASE Manager
  BY <1>3, ManagerStale
<1>4. CASE UNCHANGED vars
  BY <1>4 DEF vars, locals, StaleWorkIsRedone, cachedSvc, cachedPods
<1> QED
  BY <1>1, <1>2, <1>3, <1>4 DEF Next, Outside

(* Whatever Reconcile does on the strength of a version or of a list that  *)
(* its cache has replaced, it is called again: no event that overtakes it  *)
(* is missed, for any number of pods and any lag.                          *)
THEOREM StaleWorkIsNotTheLast == Spec => []StaleWorkIsRedone
<1>1. Init => StaleWorkIsRedone
  BY DEF Init, StaleWorkIsRedone
<1> QED
  BY <1>1, NextStale, GuardInvariant, PTL DEF Spec
=============================================================================
