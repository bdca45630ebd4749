---------------------- MODULE FrpServerControllerProofs ----------------------
(***************************************************************************)
(* Proofs about FrpServerController, for any configurations, any informer  *)
(* lag and any number of disturbances.                                     *)
(***************************************************************************)
EXTENDS FrpServerReport, HistoryLemmas

(* resourceVersions grow along the history.                                *)
Versions == \A i, j \in 1..Len(log) : i < j => log[i].rv < log[j].rv

(* An object that was read is the stored one or an older version of it.    *)
Fits(o, s) == o.uid # 0 /\ o.rv <= s.rv /\ (o.rv = s.rv => o = s)

(* What Reconcile works on, and what a late update carries, was read.      *)
Current ==
    /\ ~Free => Fits(obj, stored)
    /\ pc = "pend" => obj.phase = "Unknown"
    /\ \A r \in late : Fits(r.obj, stored)

IInv == TypeOK /\ Versions /\ Current

(* With no wake-up under way, and none lost to a failed read, Reconcile    *)
(* works on the stored object, or there is none any more, and a worker     *)
(* that has left it has found it healthy.                                  *)
Awake ==
    /\ fuel["get"] <= Fuel["get"]
    /\ NoGetFailed /\ ~queued /\ Len(log) = 1 =>
          /\ ~Free => obj = stored \/ stored.uid = 0
          /\ Free /\ ~backoff => stored.uid = 0 \/ stored.phase = "Healthy"

(* A phase with a verdict carries the reason that goes with it.            *)
Sensible(phase, reason) ==
    (phase = "Healthy" => reason = "healthy") /\ (phase = "Unhealthy" => reason \in Errors)

(* The writes an object still gets if the frp server lets R in for good.   *)
Debt(s, R) ==
    IF s.uid = 0 THEN 0
    ELSE IF s.phase = "Unknown" THEN 2
    ELSE IF s.phase \in {"none", "Pending"} THEN 1
    ELSE IF s.phase = "Healthy" <=> s.spec \in R THEN 0
    ELSE 1

(* What the disturbances so far have paid for, and what each pays.         *)
Allowance == 3 * Spent("edit") + Spent("remote") + 2 * Spent("fault") + Spent("text")
Price(d) ==
    IF d = "edit" THEN 3 ELSE IF d = "fault" THEN 2
    ELSE IF d \in {"remote", "text"} THEN 1 ELSE 0

(* The object once an update has been carried out.                         *)
After(r) == [r.obj EXCEPT !.phase = r.phase, !.reason = r.reason]

(* Enough is paid for the versions there are and for those still to come,  *)
(* and also if an update that is on its way gets there first.              *)
Due == stored.rv + Debt(stored, remote) <= Allowance
DueAfter(r) ==
    /\ Sensible(r.phase, r.reason)
    /\ r.obj.rv = stored.rv =>
          After(r) = stored \/ stored.rv + 1 + Debt(After(r), remote) <= Allowance

Covered ==
    /\ Sensible(stored.phase, stored.reason) /\ Due
    /\ \A r \in late \union InFlight : DueAfter(r)

-----------------------------------------------------------------------------
(* Both ends of the history are well typed.                                *)
LEMMA Ends ==
    ASSUME TypeOK
    PROVE  /\ stored \in Server /\ cached \in Server
           /\ Len(log) \in Nat /\ Len(log) >= 1
           /\ \A i \in 1..Len(log) : log[i] \in Server
<1>1. log \in Seq(Server) /\ log # <<>>
  BY DEF TypeOK
<1> QED
  BY <1>1, LogEnds DEF stored, cached

(* A new object is an object, and so is the record for an absent one.      *)
LEMMA FreshType ==
    ASSUME NEW n \in Nat, NEW s \in Specs
    PROVE  Fresh(n, s) \in Server /\ Fresh(n, s).uid = n /\ Fresh(n, s).phase = "none"
  BY DEF Fresh, Server, Phases, Reasons

LEMMA NoServerType == NoServer \in Server /\ NoServer.uid = 0 /\ NoServer.phase = "none"
<1>1. (CHOOSE s \in Specs : TRUE) \in Specs
  BY FrpServerAssumption
<1> QED
  BY <1>1, FreshType DEF NoServer

(* Disturbances are used up one at a time.                                 *)
LEMMA SpendType ==
    ASSUME TypeOK, NEW d \in Disturbances, Spend(d)
    PROVE  /\ fuel' \in [Disturbances -> Nat]
           /\ \A e \in Disturbances : e \notin {d, "any"} => fuel'[e] = fuel[e]
<1>1. fuel \in [Disturbances -> Nat] /\ "any" \in Disturbances
  BY DEF TypeOK, Disturbances
<1>2. fuel[d] \in Nat /\ fuel["any"] \in Nat /\ fuel[d] > 0 /\ fuel["any"] > 0
  BY <1>1 DEF Spend
<1>3. fuel[d] - 1 \in Nat /\ fuel["any"] - 1 \in Nat
  BY <1>2
<1> QED
  BY <1>1, <1>3 DEF Spend

(* A new version is added to the history.                                  *)
LEMMA NewVersionEffect ==
    ASSUME TypeOK, Versions, NEW s \in Server, NewVersion(s)
    PROVE  /\ log' \in Seq(Server) /\ log' # <<>> /\ Versions'
           /\ Len(log') = Len(log) + 1
           /\ stored' = [s EXCEPT !.rv = stored.rv + 1]
           /\ stored'.rv = stored.rv + 1
           /\ stored'.uid = s.uid /\ stored'.spec = s.spec
           /\ stored'.phase = s.phase /\ stored'.reason = s.reason
<1>0. log \in Seq(Server) /\ log # <<>> /\ stored \in Server /\ Len(log) \in Nat
  BY Ends DEF TypeOK
<1> DEFINE e == [s EXCEPT !.rv = stored.rv + 1]
<1>1. stored.rv + 1 \in Nat
  BY <1>0 DEF Server
<1>2. /\ e \in Server /\ e.rv = stored.rv + 1 /\ e.uid = s.uid /\ e.spec = s.spec
      /\ e.phase = s.phase /\ e.reason = s.reason
  <2> HIDE DEF stored
  <2> QED
    BY <1>1 DEF Server
<1>3. log' = Append(log, e)
  BY DEF NewVersion
<1>4. /\ log' \in Seq(Server) /\ log' # <<>> /\ Len(log') = Len(log) + 1
      /\ log'[Len(log) + 1] = e /\ \A i \in 1..Len(log) : log'[i] = log[i]
  BY <1>0, <1>2, <1>3, LogAppend
<1>5. stored' = e
  BY <1>4 DEF stored
<1>6. Versions'
  <2> SUFFICES ASSUME NEW i \in 1..Len(log'), NEW j \in 1..Len(log'), i < j
               PROVE  log'[i].rv < log'[j].rv
    BY DEF Versions
  <2>1. CASE j \in 1..Len(log)
    BY <1>0, <1>4, <2>1 DEF Versions
  <2>2. CASE j = Len(log) + 1
    <3>1. i \in 1..Len(log) /\ log'[i] = log[i] /\ log[i].rv <= stored.rv
      <4>1. i \in 1..Len(log) /\ log'[i] = log[i] /\ Len(log) \in 1..Len(log)
        BY <1>0, <1>4, <2>2
      <4>2. CASE i = Len(log)
        BY <1>0, <4>1, <4>2 DEF stored, Server
      <4>3. CASE i < Len(log)
        <5>1. log[i].rv < stored.rv
          BY <4>1, <4>3 DEF Versions, stored
        <5>2. log[i] \in Server
          BY <4>1, Ends
        <5>3. log[i].rv \in Nat /\ stored.rv \in Nat
          BY <1>0, <5>2 DEF Server
        <5>4. log[i].rv <= stored.rv
          BY <5>1, <5>3
        <5> QED
          BY <4>1, <5>4
      <4> QED
        BY <1>0, <4>1, <4>2, <4>3
    <3>2. log[i] \in Server
      BY <3>1, Ends
    <3>3. stored.rv \in Nat /\ log[i].rv \in Nat
      BY <1>0, <3>2 DEF Server
    <3>4. log'[j].rv = stored.rv + 1
      BY Zenon, <1>2, <1>4, <2>2
    <3> QED
      BY <3>1, <3>3, <3>4
  <2> QED
    BY <1>0, <1>4, <2>1, <2>2
<1> QED
  BY <1>2, <1>4, <1>5, <1>6

(* A write leaves the history alone or adds the next version to it.        *)
LEMMA PutEffect ==
    ASSUME TypeOK, Versions, NEW s \in Server, Put(s)
    PROVE  /\ log' \in Seq(Server) /\ log' # <<>> /\ Versions'
           /\ \/ UNCHANGED log /\ stored' = stored /\ s = stored
              \/ /\ Len(log') = Len(log) + 1
                 /\ stored' = [s EXCEPT !.rv = stored.rv + 1]
                 /\ stored'.rv = stored.rv + 1
                 /\ stored'.phase = s.phase /\ stored'.reason = s.reason
<1>1. CASE s = stored
  BY <1>1 DEF Put, stored, Versions, TypeOK
<1>2. CASE s # stored
  BY <1>2, NewVersionEffect DEF Put
<1> QED
  BY <1>1, <1>2

(* A read object stays one, whatever is written.                           *)
LEMMA FitsStays ==
    ASSUME TypeOK, NEW o \in Server, Fits(o, stored),
           stored' = stored \/ stored'.rv = stored.rv + 1
    PROVE  Fits(o, stored')
<1>1. stored.rv \in Nat /\ o.rv \in Nat
  BY Ends DEF Server
<1>2. CASE stored' = stored
  BY <1>2
<1>3. CASE stored'.rv = stored.rv + 1
  <2>1. o.rv < stored'.rv
    BY <1>1, <1>3 DEF Fits
  <2> QED
    BY <1>1, <1>3, <2>1 DEF Fits
<1> QED
  BY <1>2, <1>3

(* A status reaches the object only if that is still as it was read.       *)
LEMMA StoreStatusEffect ==
    ASSUME TypeOK, Versions, NEW r \in Request, Fits(r.obj, stored), StoreStatus(r)
    PROVE  /\ log' \in Seq(Server) /\ log' # <<>> /\ Versions'
           /\ stored = r.obj /\ stored'.phase = r.phase
           /\ \/ UNCHANGED log /\ stored' = stored
              \/ Len(log') = Len(log) + 1 /\ stored'.rv = stored.rv + 1
<1>0. stored \in Server /\ r.phase \in Phases /\ r.reason \in Reasons
  BY Ends DEF Request
<1> DEFINE s == [stored EXCEPT !.phase = r.phase, !.reason = r.reason]
<1>1. s \in Server /\ s.phase = r.phase
  BY Zenon, <1>0 DEF Server
<1>2. stored = r.obj
  BY DEF StoreStatus, Fits
<1>3. Put(s)
  BY DEF StoreStatus
<1> HIDE DEF s
<1> QED
  BY <1>1, <1>2, <1>3, PutEffect

(* A status update by Reconcile.                                           *)
LEMMA UpdateStatusEffect ==
    ASSUME IInv, NEW r \in Request, Fits(r.obj, stored), NEW ok \in BOOLEAN, UpdateStatus(r, ok)
    PROVE  /\ log' \in Seq(Server) /\ log' # <<>> /\ Versions'
           /\ fuel' \in [Disturbances -> Nat] /\ fuel'["get"] = fuel["get"]
           /\ \/ UNCHANGED log /\ stored' = stored
              \/ /\ Len(log') = Len(log) + 1 /\ stored'.rv = stored.rv + 1
                 /\ stored = r.obj /\ stored'.phase = r.phase
           /\ ok => \/ Len(log') = Len(log) + 1
                    \/ UNCHANGED log /\ stored' = stored /\ stored.phase = r.phase
<1> USE DEF IInv
<1>0. stored \in Server /\ log \in Seq(Server) /\ log # <<>>
  BY Ends DEF TypeOK
<1>1. fuel' \in [Disturbances -> Nat] /\ fuel'["get"] = fuel["get"]
  BY SpendType DEF UpdateStatus, Lost, TypeOK, Disturbances
<1>2. CASE UNCHANGED log /\ ~ok
  BY <1>0, <1>1, <1>2 DEF stored, Versions
<1>3. CASE StoreStatus(r)
  BY <1>1, <1>3, StoreStatusEffect
<1> QED
  BY <1>2, <1>3 DEF UpdateStatus, Lost

(* What Reconcile sends is a request for the object it works on.           *)
LEMMA RequestType ==
    ASSUME TypeOK
    PROVE  /\ Pending \in Request /\ Pending.obj = obj /\ Pending.phase = "Pending"
           /\ Outcome \in Request /\ Outcome.obj = obj
           /\ Outcome.phase = (IF verdict = "healthy" THEN "Healthy" ELSE "Unhealthy")
<1>1. obj \in Server /\ obj.reason \in Reasons /\ verdict \in Reasons
  BY DEF TypeOK, Server
<1>2. (IF verdict = "healthy" THEN "Healthy" ELSE "Unhealthy") \in Phases
  BY DEF Phases
<1>3. "Pending" \in Phases
  BY DEF Phases
<1> QED
  BY <1>1, <1>2, <1>3 DEF Pending, Outcome, Request

(* Returning from Reconcile.                                               *)
LEMMA ReturnType ==
    ASSUME TypeOK, NEW ok \in BOOLEAN, Return(ok)
    PROVE  /\ pc' = "idle" /\ obj' \in Server /\ verdict' \in Reasons
           /\ backoff' \in BOOLEAN /\ (~ok => backoff') /\ queued' = queued
  BY Zenon, NoServerType DEF Return, Reset, TypeOK, Reasons

(* Writes by others: the worker, its queue and its fuel for reads are left *)
(* alone.                                                                  *)
LEMMA OthersEffect ==
    ASSUME TypeOK, Versions, Others
    PROVE  /\ log' \in Seq(Server) /\ log' # <<>> /\ Versions'
           /\ UNCHANGED manager /\ remote' \in SUBSET Specs
           /\ fuel' \in [Disturbances -> Nat] /\ fuel'["get"] = fuel["get"]
           /\ \/ UNCHANGED log /\ stored' = stored
              \/ Len(log') = Len(log) + 1 /\ stored'.rv = stored.rv + 1
           /\ ~Recorded(stored, stored')
<1>0. stored \in Server /\ log \in Seq(Server) /\ log # <<>> /\ remote \in SUBSET Specs
  BY Ends DEF TypeOK
<1>1. CASE ChangeRemote
  BY <1>0, <1>1, SpendType DEF ChangeRemote, Disturbances, stored, Versions, Recorded
<1>2. ASSUME NEW s \in Server, Put(s) \/ NewVersion(s), ~Recorded(stored, s),
             Spend("edit"), UNCHANGED <<remote, manager>>
      PROVE  /\ log' \in Seq(Server) /\ log' # <<>> /\ Versions'
             /\ UNCHANGED manager /\ remote' \in SUBSET Specs
             /\ fuel' \in [Disturbances -> Nat] /\ fuel'["get"] = fuel["get"]
             /\ \/ UNCHANGED log /\ stored' = stored
                \/ Len(log') = Len(log) + 1 /\ stored'.rv = stored.rv + 1
             /\ ~Recorded(stored, stored')
  <2>1. fuel' \in [Disturbances -> Nat] /\ fuel'["get"] = fuel["get"]
    BY <1>2, SpendType DEF Disturbances
  <2> QED
    BY <1>0, <1>2, <2>1, PutEffect, NewVersionEffect DEF Recorded
<1>3. CASE CreateServer
  <2>1. PICK s \in Specs : NewVersion(Fresh(stored.rv + 1, s))
    BY <1>3 DEF CreateServer
  <2>2. stored.rv + 1 \in Nat /\ s \in Specs
    BY <1>0 DEF Server
  <2>3. Fresh(stored.rv + 1, s) \in Server /\ Fresh(stored.rv + 1, s).phase = "none"
    BY <2>2, FreshType
  <2> QED
    BY <1>2, <1>3, <2>1, <2>3 DEF CreateServer, Recorded
<1>4. CASE EditServer
  <2>1. PICK s \in Specs : NewVersion([stored EXCEPT !.spec = s])
    BY <1>4 DEF EditServer
  <2>2. /\ [stored EXCEPT !.spec = s] \in Server
        /\ ~Recorded(stored, [stored EXCEPT !.spec = s])
    BY <1>0 DEF Server, Recorded
  <2> QED
    BY <1>2, <1>4, <2>1, <2>2 DEF EditServer
<1>5. CASE DeleteServer
  BY <1>2, <1>5, NoServerType DEF DeleteServer, Recorded
<1>6. CASE SetUnknown
  <2>1. /\ [stored EXCEPT !.phase = "Unknown"] \in Server
        /\ ~Recorded(stored, [stored EXCEPT !.phase = "Unknown"])
    BY <1>0 DEF Server, Phases, Recorded
  <2> QED
    BY <1>2, <1>6, <2>1 DEF SetUnknown
<1> QED
  BY <1>1, <1>3, <1>4, <1>5, <1>6 DEF Others

(* The informer drops the oldest version and keeps the stored one.         *)
LEMMA DeliverEffect ==
    ASSUME TypeOK, Versions, Deliver
    PROVE  log' \in Seq(Server) /\ log' # <<>> /\ Versions' /\ stored' = stored
<1>0. log \in Seq(Server) /\ Len(log) > 1 /\ log' = Tail(log)
  BY DEF TypeOK, Deliver
<1>1. /\ log' \in Seq(Server) /\ log' # <<>> /\ Len(log') = Len(log) - 1
      /\ \A i \in 1..Len(log') : log'[i] = log[i + 1]
      /\ Len(log) \in Nat
  BY <1>0, LogTail
<1>2. stored' = stored
  BY <1>0, <1>1 DEF stored
<1>3. Versions'
  <2> SUFFICES ASSUME NEW i \in 1..Len(log'), NEW j \in 1..Len(log'), i < j
               PROVE  log'[i].rv < log'[j].rv
    BY DEF Versions
  <2>1. i + 1 \in 1..Len(log) /\ j + 1 \in 1..Len(log) /\ i + 1 < j + 1
    BY <1>1
  <2> QED
    BY <1>1, <2>1 DEF Versions
<1> QED
  BY <1>1, <1>2, <1>3

(* After a list the cache holds the stored object alone.                   *)
LEMMA ListEffect ==
    ASSUME TypeOK, log' = <<stored>>
    PROVE  /\ log' \in Seq(Server) /\ log' # <<>> /\ Len(log') = 1
           /\ Versions' /\ stored' = stored
<1>0. stored \in Server
  BY Ends
<1>1. log' \in Seq(Server) /\ log' # <<>> /\ Len(log') = 1 /\ log'[1] = stored
  BY <1>0, LogSingle
<1> QED
  BY <1>1 DEF Versions, stored

(* A late update is taken from the pile and stored, or lost.               *)
LEMMA LateEffect ==
    ASSUME IInv, LateUpdate
    PROVE  \E r \in late :
             /\ late' = late \ {r}
             /\ log' \in Seq(Server) /\ log' # <<>> /\ Versions'
             /\ \/ UNCHANGED log /\ stored' = stored
                \/ /\ Len(log') = Len(log) + 1 /\ stored'.rv = stored.rv + 1
                   /\ stored = r.obj
<1> USE DEF IInv
<1>1. PICK r \in late : late' = late \ {r} /\ (StoreStatus(r) \/ UNCHANGED log)
  BY DEF LateUpdate
<1>2. r \in Request /\ Fits(r.obj, stored)
  BY DEF TypeOK, Current, Free
<1>3. CASE StoreStatus(r)
  BY <1>1, <1>2, <1>3, StoreStatusEffect
<1>4. CASE UNCHANGED log
  <2>1. stored' = stored /\ Versions' /\ log' \in Seq(Server) /\ log' # <<>>
    BY <1>4 DEF stored, Versions, TypeOK
  <2> QED
    BY <1>1, <1>4, <2>1
<1> QED
  BY <1>1, <1>3, <1>4

-----------------------------------------------------------------------------
(* Every step of Reconcile preserves the invariant.                        *)
LEMMA ReconcileIInv ==
    ASSUME IInv, Reconcile
    PROVE  IInv'
<1> USE DEF IInv
<1>0. stored \in Server /\ cached \in Server /\ obj \in Server /\ stored.rv \in Nat
  BY Ends DEF TypeOK, Server
<1>1. CASE GetServer
  <2>1. cached.uid # 0 => Fits(cached, stored)
    <3>1. Len(log) \in Nat /\ Len(log) >= 1 /\ cached.rv \in Nat
      BY <1>0, Ends DEF Server
    <3>2. CASE Len(log) = 1
      BY <1>0, <3>1, <3>2 DEF stored, cached, Fits
    <3>3. CASE Len(log) > 1
      <4>1. cached.rv < stored.rv
        BY <3>1, <3>3 DEF Versions, stored, cached
      <4> QED
        BY <1>0, <3>1, <4>1 DEF Fits
    <3>4. Len(log) = 1 \/ Len(log) > 1
      <4>1. \A n \in Nat : n >= 1 => n = 1 \/ n > 1
        OBVIOUS
      <4> QED
        BY Zenon, <3>1, <4>1
    <3> QED
      BY <3>2, <3>3, <3>4
  <2>2. stored' = stored /\ Versions'
    BY <1>1 DEF GetServer, stored, Versions
  <2>3. TypeOK'
    BY Zenon, <1>0, <1>1 DEF GetServer, TypeOK
  <2>4. Current'
    BY <1>1, <2>1, <2>2 DEF GetServer, Current, Free
  <2> QED
    BY <2>2, <2>3, <2>4
<1>2. CASE GetServerFails
  <2>1. TypeOK'
    BY Zenon, <1>2, SpendType DEF GetServerFails, TypeOK, Disturbances
  <2> QED
    BY <1>2, <2>1 DEF GetServerFails, Versions, Current, stored, Free
<1>3. CASE SetPending
  <2>1. PICK ok \in BOOLEAN : UpdateStatus(Pending, ok) /\ Return(ok)
    BY <1>3 DEF SetPending
  <2>2. Pending \in Request /\ Fits(Pending.obj, stored)
    BY <1>3, RequestType DEF SetPending, Current, Free
  <2>3. /\ log' \in Seq(Server) /\ log' # <<>> /\ Versions'
        /\ fuel' \in [Disturbances -> Nat]
        /\ stored' = stored \/ stored'.rv = stored.rv + 1
    BY <2>1, <2>2, UpdateStatusEffect
  <2>4. /\ pc' = "idle" /\ obj' \in Server /\ verdict' \in Reasons
        /\ backoff' \in BOOLEAN /\ queued' = queued
    BY <2>1, ReturnType
  <2>5. late' = late /\ remote' = remote
    BY <1>3 DEF SetPending
  <2>6. TypeOK'
    BY <2>3, <2>4, <2>5 DEF TypeOK
  <2>7. \A r \in late' : Fits(r.obj, stored')
    BY <2>3, <2>5, FitsStays DEF TypeOK, Request, Current, Free
  <2> QED
    BY <2>3, <2>4, <2>6, <2>7 DEF Current, Free
<1>4. CASE Probe
  <2>1. verdict' \in Reasons
    BY <1>4 DEF Probe, Reasons
  <2>2. fuel' \in [Disturbances -> Nat]
    BY <1>4, SpendType DEF Probe, TypeOK, Disturbances
  <2>3. TypeOK'
    BY <1>4, <2>1, <2>2 DEF Probe, TypeOK
  <2> QED
    BY <1>4, <2>3 DEF Probe, Versions, Current, stored, Free
<1>5. CASE WriteVerdict
  <2>1. PICK ok \in BOOLEAN : UpdateStatus(Outcome, ok) /\ Return(ok /\ verdict = "healthy")
    BY <1>5 DEF WriteVerdict
  <2>2. Outcome \in Request /\ Fits(Outcome.obj, stored)
    BY <1>5, RequestType DEF WriteVerdict, Current, Free
  <2>3. /\ log' \in Seq(Server) /\ log' # <<>> /\ Versions'
        /\ fuel' \in [Disturbances -> Nat]
        /\ stored' = stored \/ stored'.rv = stored.rv + 1
    BY <2>1, <2>2, UpdateStatusEffect
  <2>4. /\ pc' = "idle" /\ obj' \in Server /\ verdict' \in Reasons
        /\ backoff' \in BOOLEAN /\ queued' = queued
    <3>1. (ok /\ verdict = "healthy") \in BOOLEAN
      OBVIOUS
    <3> QED
      BY Zenon, <2>1, <3>1, ReturnType
  <2>5. late' = late /\ remote' = remote
    BY <1>5 DEF WriteVerdict
  <2>6. TypeOK'
    BY <2>3, <2>4, <2>5 DEF TypeOK
  <2>7. \A r \in late' : Fits(r.obj, stored')
    BY <2>3, <2>5, FitsStays DEF TypeOK, Request, Current, Free
  <2> QED
    BY <2>3, <2>4, <2>6, <2>7 DEF Current, Free
<1> QED
  BY <1>1, <1>2, <1>3, <1>4, <1>5 DEF Reconcile

(* So does every other step.                                               *)
LEMMA RestIInv ==
    ASSUME IInv, Manager \/ Others \/ UNCHANGED vars
    PROVE  IInv'
<1> USE DEF IInv
<1>0. stored \in Server /\ obj \in Server /\ stored.rv \in Nat /\ obj.rv \in Nat
  BY Ends DEF TypeOK, Server
<1>1. CASE Deliver
  BY <1>1, DeliverEffect DEF Deliver, worker, TypeOK, Current, Free
<1>2. CASE BackoffExpires
  BY Zenon, <1>2 DEF BackoffExpires, worker, TypeOK, Current, Versions, stored, Free
<1>3. CASE Resync
  BY <1>3 DEF Resync, worker, TypeOK, Current, Versions, stored, Free
<1>4. CASE Restart
  <2>1. /\ log' \in Seq(Server) /\ log' # <<>> /\ Versions' /\ stored' = stored
        /\ pc' = "idle" /\ late' = late \union InFlight
    BY <1>4, ListEffect DEF Restart, Reset
  <2>2. InFlight \subseteq Request /\ \A r \in InFlight : ~Free /\ r.obj = obj
    <3>1. Pending \in Request /\ Outcome \in Request /\ Pending.obj = obj /\ Outcome.obj = obj
      BY RequestType
    <3> QED
      BY <3>1 DEF InFlight, Free
  <2>3. fuel' \in [Disturbances -> Nat] /\ queued' \in BOOLEAN
    BY <1>4, SpendType DEF Restart, Disturbances
  <2>4. TypeOK'
    BY Zenon, <1>4, <2>1, <2>2, <2>3, NoServerType DEF Restart, Reset, TypeOK, Reasons
  <2>5. \A r \in late' : Fits(r.obj, stored')
    BY <2>1, <2>2 DEF Current, Free
  <2> QED
    BY <2>1, <2>4, <2>5 DEF Current, Free
<1>5. CASE Others
  <2>1. TypeOK' /\ Versions'
    BY <1>5, OthersEffect DEF manager, worker, TypeOK
  <2>2. /\ UNCHANGED <<pc, obj, late>>
        /\ stored' = stored \/ stored'.rv = stored.rv + 1
    BY <1>5, OthersEffect DEF manager, worker
  <2>3. ~Free => Fits(obj, stored')
    BY <1>0, <2>2, FitsStays DEF Current, Free
  <2>4. \A r \in late : Fits(r.obj, stored')
    BY <2>2, FitsStays DEF TypeOK, Request, Current, Free
  <2> QED
    BY <2>1, <2>2, <2>3, <2>4 DEF Current, Free
<1>7. CASE Relist
  <2>1. /\ log' \in Seq(Server) /\ log' # <<>> /\ Versions' /\ stored' = stored
    BY <1>7, ListEffect DEF Relist
  <2>2. UNCHANGED <<remote, backoff, pc, obj, verdict, late, fuel>> /\ queued' \in BOOLEAN
    BY <1>7 DEF Relist, worker
  <2> QED
    BY <2>1, <2>2 DEF TypeOK, Current, Free
<1>8. CASE LateUpdate
  <2>1. PICK r \in late :
             /\ late' = late \ {r}
             /\ log' \in Seq(Server) /\ log' # <<>> /\ Versions'
             /\ stored' = stored \/ stored'.rv = stored.rv + 1
    BY <1>8, LateEffect
  <2>2. UNCHANGED <<remote, queued, backoff, pc, obj, verdict, fuel>>
    BY <1>8 DEF LateUpdate
  <2>3. TypeOK'
    BY <2>1, <2>2 DEF TypeOK
  <2>4. ~Free => Fits(obj, stored')
    BY <1>0, <2>1, FitsStays DEF Current, Free
  <2>5. \A q \in late : Fits(q.obj, stored')
    BY <2>1, FitsStays DEF TypeOK, Request, Current, Free
  <2> QED
    BY <2>1, <2>2, <2>3, <2>4, <2>5 DEF Current, Free
<1>9. CASE OtherServer
  BY <1>9 DEF OtherServer, TypeOK, Versions, Current, Free, stored
<1>6. CASE UNCHANGED vars
  BY <1>6 DEF vars, TypeOK, Versions, Current, Free, stored
<1> QED
  BY <1>1, <1>2, <1>3, <1>4, <1>5, <1>6, <1>7, <1>8, <1>9 DEF Manager

(* The invariant, in every reachable state.                                *)
THEOREM Invariance == Spec => []IInv
<1>1. Init => IInv
  <2> SUFFICES ASSUME Init
               PROVE  IInv
    OBVIOUS
  <2>1. NoServer \in Server
    BY NoServerType
  <2>2. log \in Seq(Server) /\ log # <<>> /\ Len(log) = 1
    BY <2>1, LogSingle DEF Init
  <2>3. TypeOK
    BY Zenon, <2>1, <2>2, FrpServerAssumption DEF Init, TypeOK, Reasons
  <2>4. Versions /\ Current
    BY <2>2 DEF Init, Versions, Current, Free
  <2> QED
    BY <2>3, <2>4 DEF IInv
<1>2. IInv /\ [Next]_vars => IInv'
  BY ReconcileIInv, RestIInv DEF Next
<1> QED
  BY <1>1, <1>2, PTL DEF Spec

(* Every variable keeps its type.                                          *)
THEOREM TypeCorrect == Spec => []TypeOK
<1>1. IInv => TypeOK
  BY DEF IInv
<1> QED
  BY <1>1, Invariance, PTL

(* A verdict reaches only the object it was reached for, however long the  *)
(* probe takes and whatever users do meanwhile (frpserver_controller.go:   *)
(* 68-93): the status update is refused unless nothing was written since.  *)
THEOREM VerdictIsCurrent == Spec => VerdictFitsSpec
<1>1. ASSUME IInv, [Next]_vars, Recorded(stored, stored')
      PROVE  (pc = "write" /\ stored = obj) \/ \E r \in late : stored = r.obj
  <2>1. CASE WriteVerdict
    <3>1. PICK ok \in BOOLEAN : UpdateStatus(Outcome, ok)
      BY <2>1 DEF WriteVerdict
    <3>2. Outcome \in Request /\ Outcome.obj = obj /\ Fits(obj, stored) /\ pc = "write"
      BY <1>1, <2>1, RequestType DEF WriteVerdict, Current, IInv, Free
    <3>3. stored' = stored \/ stored = obj
      BY <1>1, <3>1, <3>2, UpdateStatusEffect
    <3> QED
      BY <1>1, <3>2, <3>3 DEF Recorded
  <2>2. CASE SetPending
    <3>1. PICK ok \in BOOLEAN : UpdateStatus(Pending, ok)
      BY <2>2 DEF SetPending
    <3>2. Pending \in Request /\ Pending.phase = "Pending" /\ Fits(Pending.obj, stored)
      BY <1>1, <2>2, RequestType DEF SetPending, Current, IInv, Free
    <3>3. stored' = stored \/ stored'.phase = "Pending"
      BY <1>1, <3>1, <3>2, UpdateStatusEffect
    <3> QED
      BY <1>1, <3>3 DEF Recorded
  <2>3. CASE GetServer \/ GetServerFails \/ Probe \/ BackoffExpires \/ OtherServer \/ Resync \/ UNCHANGED vars
    <3>1. stored' = stored
      BY <2>3 DEF GetServer, GetServerFails, Probe, BackoffExpires, OtherServer, Resync, vars, stored
    <3> QED
      BY <1>1, <3>1 DEF Recorded
  <2>4. CASE Deliver \/ Relist \/ Restart
    <3>1. stored' = stored
      BY <1>1, <2>4, DeliverEffect, ListEffect DEF IInv, Relist, Restart
    <3> QED
      BY <1>1, <3>1 DEF Recorded
  <2>5. CASE LateUpdate
    <3>1. PICK r \in late : stored' = stored \/ stored = r.obj
      BY <1>1, <2>5, LateEffect
    <3> QED
      BY <1>1, <3>1 DEF Recorded
  <2>6. CASE Others
    BY <1>1, <2>6, OthersEffect DEF IInv
  <2> QED
    BY <1>1, <2>1, <2>2, <2>3, <2>4, <2>5, <2>6 DEF Next, Reconcile, Manager
<1>2. IInv /\ [Next]_vars =>
        [Recorded(stored, stored') =>
           (pc = "write" /\ stored = obj) \/ \E r \in late : stored = r.obj]_vars
  BY <1>1
<1> QED
  BY <1>2, Invariance, PTL DEF Spec, VerdictFitsSpec

-----------------------------------------------------------------------------
(* No step of Reconcile loses the wake-up it owes.                         *)
LEMMA ReconcileAwake ==
    ASSUME IInv, Awake, Reconcile
    PROVE  Awake'
<1>0. Len(log) \in Nat /\ Len(log) >= 1 /\ stored \in Server
  BY Ends DEF IInv
<1>1. CASE GetServer
  BY <1>0, <1>1 DEF GetServer, Awake, NoGetFailed, stored, cached, Free
<1>2. CASE GetServerFails
  <2>1. fuel["get"] \in Nat /\ Fuel["get"] \in Nat
    BY FrpServerAssumption DEF IInv, TypeOK, Disturbances
  <2>2. fuel'["get"] = fuel["get"] - 1
    BY <1>2 DEF GetServerFails, Spend, IInv, TypeOK, Disturbances
  <2> QED
    BY <2>1, <2>2 DEF Awake, NoGetFailed, Free
<1>3. CASE SetPending
  <2>1. PICK ok \in BOOLEAN : UpdateStatus(Pending, ok) /\ Return(ok)
    BY <1>3 DEF SetPending
  <2>2. pc' = "idle" /\ (~ok => backoff') /\ queued' = queued
    BY <2>1, ReturnType DEF IInv
  <2>0. Pending \in Request /\ Pending.phase = "Pending" /\ Fits(Pending.obj, stored)
    BY <1>3, RequestType DEF SetPending, Current, IInv, Free
  <2>3. fuel'["get"] = fuel["get"]
    BY <2>0, <2>1, UpdateStatusEffect
  <2>4. ok => Len(log') = Len(log) + 1 \/ (UNCHANGED log /\ stored' = stored /\ stored.phase = "Pending")
    BY Zenon, <2>0, <2>1, UpdateStatusEffect
  <2>5. NoGetFailed /\ ~queued /\ Len(log) = 1 => stored.phase = "Unknown" \/ stored.uid = 0
    BY <1>3 DEF SetPending, Awake, IInv, Current, Free
  <2>6. fuel'["get"] <= Fuel["get"] /\ NoGetFailed' = NoGetFailed
    BY <2>3 DEF Awake, NoGetFailed, Free
  <2>7. NoGetFailed /\ ~queued' /\ Len(log') = 1 => backoff' \/ stored'.uid = 0
    <3>1. Len(log) + 1 # 1
      BY <1>0
    <3> QED
      BY <2>2, <2>4, <2>5, <3>1
  <2> QED
    BY <2>2, <2>6, <2>7 DEF Awake, Free
<1>4. CASE Probe
  <2>1. fuel'["get"] = fuel["get"]
    BY <1>4, SpendType DEF Probe, IInv, Disturbances
  <2> QED
    BY <1>4, <2>1 DEF Probe, Awake, NoGetFailed, stored, Free
<1>5. CASE WriteVerdict
  <2> DEFINE ph == IF verdict = "healthy" THEN "Healthy" ELSE "Unhealthy"
  <2>1. PICK ok \in BOOLEAN : UpdateStatus(Outcome, ok) /\ Return(ok /\ verdict = "healthy")
    BY <1>5 DEF WriteVerdict
  <2>0. Outcome \in Request /\ Outcome.phase = ph /\ Fits(Outcome.obj, stored)
    BY <1>5, RequestType DEF WriteVerdict, Current, IInv, Free
  <2>2. pc' = "idle" /\ (~(ok /\ verdict = "healthy") => backoff') /\ queued' = queued
    <3>1. (ok /\ verdict = "healthy") \in BOOLEAN
      OBVIOUS
    <3> QED
      BY Zenon, <2>1, <3>1, ReturnType DEF IInv
  <2>3. /\ fuel'["get"] = fuel["get"]
        /\ ok => Len(log') = Len(log) + 1 \/ (UNCHANGED log /\ stored' = stored /\ stored.phase = ph)
    BY <2>0, <2>1, UpdateStatusEffect
  <2>4. fuel'["get"] <= Fuel["get"]
    BY <2>3 DEF Awake, Free
  <2>5. Len(log') = 1 => backoff' \/ stored'.phase = "Healthy"
    <3>1. Len(log) + 1 # 1
      BY <1>0
    <3> QED
      BY <2>2, <2>3, <3>1
  <2> QED
    BY <2>2, <2>4, <2>5 DEF Awake, Free
<1> QED
  BY <1>1, <1>2, <1>3, <1>4, <1>5 DEF Reconcile

(* Nor does any other step.                                                *)
LEMMA RestAwake ==
    ASSUME IInv, Awake, Manager \/ Others \/ UNCHANGED vars
    PROVE  Awake'
<1>0. Len(log) \in Nat /\ Len(log) >= 1 /\ stored \in Server
  BY Ends DEF IInv
<1>7. CASE OtherServer
  BY <1>7 DEF OtherServer, Awake, NoGetFailed, Free, stored
<1>1. CASE Deliver \/ BackoffExpires \/ Resync
  BY <1>1 DEF Deliver, BackoffExpires, Resync, Awake, Free
<1>2. CASE Restart
  <2>1. /\ pc' = "idle" /\ stored' = stored /\ queued' = (stored.uid # 0)
    BY <1>2, ListEffect DEF Restart, Reset, IInv
  <2>2. fuel'["get"] = fuel["get"]
    BY <1>2, SpendType DEF Restart, IInv, Disturbances
  <2> QED
    BY Zenon, <2>1, <2>2 DEF Awake, NoGetFailed, Free
<1>3. CASE Others
  <2>1. /\ UNCHANGED <<queued, backoff, pc, obj>> /\ fuel'["get"] = fuel["get"]
        /\ \/ UNCHANGED log /\ stored' = stored
           \/ Len(log') = Len(log) + 1
    BY <1>3, OthersEffect DEF manager, worker, IInv
  <2>2. Len(log) + 1 # 1
    BY <1>0
  <2> QED
    BY Zenon, <2>1, <2>2 DEF Awake, NoGetFailed, Free
<1>4. CASE UNCHANGED vars
  BY <1>4 DEF vars, Awake, NoGetFailed, stored, Free
<1>5. CASE LateUpdate
  <2>1. /\ \/ UNCHANGED log /\ stored' = stored
           \/ Len(log') = Len(log) + 1
    BY <1>5, LateEffect
  <2>2. UNCHANGED <<queued, backoff, pc, obj, fuel>>
    BY <1>5 DEF LateUpdate
  <2>3. Len(log) + 1 # 1
    BY <1>0
  <2> QED
    BY Zenon, <2>1, <2>2, <2>3 DEF Awake, NoGetFailed, Free
<1>6. CASE Relist
  <2>1. stored' = stored /\ UNCHANGED <<backoff, pc, obj, fuel>>
    BY <1>6, ListEffect DEF Relist, worker, IInv
  <2>2. ~queued' => ~queued /\ cached.uid = 0 /\ stored.uid = 0
    BY Zenon, <1>6 DEF Relist
  <2> QED
    BY <2>1, <2>2 DEF Awake, NoGetFailed, Free
<1> QED
  BY <1>1, <1>2, <1>3, <1>4, <1>5, <1>6, <1>7 DEF Manager

(* Unless a read of the object has failed, the controller rests only on a  *)
(* server it has found healthy (frpserver_controller.go:63-93).  A failed  *)
(* read is the one error Reconcile swallows, line 59.                      *)
THEOREM NoLostWakeUp == Spec => []RestsOnlyHealthy
<1>1. Init => Awake
  <2> SUFFICES ASSUME Init
               PROVE  Awake
    OBVIOUS
  <2>1. stored.uid = 0
    <3>1. NoServer \in Server /\ NoServer.uid = 0
      BY NoServerType
    <3>2. Len(log) = 1 /\ log[1] = NoServer
      BY <3>1, LogSingle DEF Init
    <3> QED
      BY <3>1, <3>2 DEF stored
  <2>2. Fuel["get"] \in Nat
    BY FrpServerAssumption DEF Disturbances
  <2> QED
    BY <2>1, <2>2 DEF Init, Awake, Free
<1>2. IInv /\ Awake /\ [Next]_vars => Awake'
  BY ReconcileAwake, RestAwake DEF Next
<1>3. Awake => RestsOnlyHealthy
  BY DEF Awake, RestsOnlyHealthy, Settled, Free
<1> QED
  BY <1>1, <1>2, <1>3, Invariance, PTL DEF Spec

-----------------------------------------------------------------------------
(* A disturbance pays its price.                                           *)
LEMMA Payment ==
    ASSUME TypeOK, NEW d \in Disturbances \ {"any"}, Spend(d), NEW n \in Nat, n <= Allowance
    PROVE  n <= Allowance' /\ n + Price(d) <= Allowance'
<1>1. /\ fuel \in [Disturbances -> Nat] /\ Fuel \in [Disturbances -> Nat]
      /\ fuel'[d] = fuel[d] - 1 /\ \A e \in Disturbances \ {"any", d} : fuel'[e] = fuel[e]
  BY Zenon, FrpServerAssumption DEF TypeOK, Spend, Disturbances
<1>2. /\ fuel["edit"] \in Nat /\ fuel["remote"] \in Nat /\ fuel["fault"] \in Nat /\ fuel["text"] \in Nat
      /\ Fuel["edit"] \in Nat /\ Fuel["remote"] \in Nat /\ Fuel["fault"] \in Nat /\ Fuel["text"] \in Nat
  BY <1>1 DEF Disturbances
<1>3. /\ d = "edit" => fuel'["edit"] = fuel["edit"] - 1
      /\ d # "edit" => fuel'["edit"] = fuel["edit"]
      /\ d = "remote" => fuel'["remote"] = fuel["remote"] - 1
      /\ d # "remote" => fuel'["remote"] = fuel["remote"]
      /\ d = "fault" => fuel'["fault"] = fuel["fault"] - 1
      /\ d # "fault" => fuel'["fault"] = fuel["fault"]
      /\ d = "text" => fuel'["text"] = fuel["text"] - 1
      /\ d # "text" => fuel'["text"] = fuel["text"]
  BY <1>1 DEF Disturbances
<1>4. CASE d = "edit"
  BY <1>2, <1>3, <1>4 DEF Allowance, Spent, Price
<1>5. CASE d = "fault"
  BY <1>2, <1>3, <1>5 DEF Allowance, Spent, Price
<1>6. CASE d = "remote"
  BY <1>2, <1>3, <1>6 DEF Allowance, Spent, Price
<1>7. CASE d = "text"
  BY <1>2, <1>3, <1>7 DEF Allowance, Spent, Price
<1>8. CASE d \notin {"edit", "fault", "remote", "text"}
  BY <1>2, <1>3, <1>8 DEF Allowance, Spent, Price
<1> QED
  BY <1>4, <1>5, <1>6, <1>7, <1>8

(* Nothing that happens lowers the allowance.                              *)
LEMMA AllowanceStays ==
    ASSUME TypeOK, UNCHANGED fuel \/ \E d \in Disturbances \ {"any"} : Spend(d),
           NEW n \in Nat, n <= Allowance
    PROVE  n <= Allowance'
<1>1. CASE UNCHANGED fuel
  BY <1>1 DEF Allowance, Spent
<1>2. ASSUME NEW d \in Disturbances \ {"any"}, Spend(d)
      PROVE  n <= Allowance'
  BY <1>2, Payment
<1> QED
  BY <1>1, <1>2

(* The allowance is a number, spent or not.                                *)
LEMMA Smaller ==
    ASSUME TypeOK, TypeOK', NEW m \in Nat, NEW n \in Nat, m <= n
    PROVE  (n <= Allowance => m <= Allowance) /\ (n <= Allowance' => m <= Allowance')
<1>1. /\ fuel["edit"] \in Nat /\ fuel["remote"] \in Nat /\ fuel["fault"] \in Nat /\ fuel["text"] \in Nat
      /\ fuel'["edit"] \in Nat /\ fuel'["remote"] \in Nat /\ fuel'["fault"] \in Nat /\ fuel'["text"] \in Nat
      /\ Fuel["edit"] \in Nat /\ Fuel["remote"] \in Nat /\ Fuel["fault"] \in Nat /\ Fuel["text"] \in Nat
  BY FrpServerAssumption DEF TypeOK, Disturbances
<1> QED
  BY <1>1 DEF Allowance, Spent

(* The debt of an object.                                                  *)
LEMMA DebtRange == \A s, R : Debt(s, R) \in {0, 1, 2}
  BY DEF Debt

LEMMA DebtFields ==
    \A s, t, R : s.uid = t.uid /\ s.phase = t.phase /\ s.spec = t.spec => Debt(s, R) = Debt(t, R)
  BY DEF Debt

LEMMA DebtMoves == \A s, R, Q : Debt(s, Q) <= Debt(s, R) + 1
  BY DEF Debt

(* What an update leaves: the incarnation, the version and the spec.       *)
LEMMA AfterFields ==
    ASSUME NEW r \in Request
    PROVE  /\ After(r) \in Server /\ After(r).uid = r.obj.uid /\ After(r).spec = r.obj.spec
           /\ After(r).rv = r.obj.rv /\ After(r).phase = r.phase /\ After(r).reason = r.reason
           /\ r.phase = r.obj.phase /\ r.reason = r.obj.reason => After(r) = r.obj
<1>1. r.obj \in Server /\ r.phase \in Phases /\ r.reason \in Reasons
  BY DEF Request
<1> QED
  BY Zenon, <1>1 DEF After, Server

(* Every update that is on its way was read from the stored object or from *)
(* an older version of it.                                                 *)
LEMMA OnTheWay ==
    ASSUME IInv, NEW r \in late \union InFlight
    PROVE  r \in Request /\ Fits(r.obj, stored)
<1>1. /\ Pending \in Request /\ Pending.obj = obj
      /\ Outcome \in Request /\ Outcome.obj = obj
  BY RequestType DEF IInv
<1>2. CASE r \in late
  BY <1>2 DEF IInv, TypeOK, Current, Free
<1>3. CASE r \in InFlight
  <2>1. r \in {Pending, Outcome} /\ ~Free
    BY <1>3 DEF InFlight, Free
  <2> QED
    BY <1>1, <2>1 DEF IInv, Current, Free
<1> QED
  BY <1>2, <1>3

(* A step that writes nothing and leaves the frp server alone.             *)
LEMMA QuietCovers ==
    ASSUME IInv, Covered, UNCHANGED remote, stored' = stored,
           UNCHANGED fuel \/ \E d \in Disturbances \ {"any"} : Spend(d)
    PROVE  /\ Sensible(stored'.phase, stored'.reason) /\ Due'
           /\ \A r \in late \union InFlight : DueAfter(r)'
<1>0. TypeOK /\ stored \in Server /\ stored.rv \in Nat
  BY Ends DEF IInv, Server
<1>1. Due'
  <2>1. stored.rv + Debt(stored, remote) \in Nat /\ stored.rv + Debt(stored, remote) <= Allowance
    BY <1>0, DebtRange DEF Covered, Due
  <2>2. stored.rv + Debt(stored, remote) <= Allowance'
    BY <1>0, <2>1, AllowanceStays
  <2> QED
    BY <2>2 DEF Due
<1>2. ASSUME NEW r \in late \union InFlight
      PROVE  DueAfter(r)'
  <2> DEFINE n == stored.rv + 1 + Debt(After(r), remote)
  <2>1. DueAfter(r)
    BY <1>2 DEF Covered
  <2>2. n \in Nat
    BY <1>0, DebtRange
  <2>3. n <= Allowance => n <= Allowance'
    BY <1>0, <2>2, AllowanceStays
  <2> HIDE DEF n
  <2>4. r.obj.rv = stored.rv => After(r) = stored \/ n <= Allowance'
    BY <2>1, <2>3 DEF DueAfter, n
  <2> QED
    BY <2>1, <2>4 DEF DueAfter, n
<1> QED
  BY <1>1, <1>2 DEF Covered

(* After a write the updates that were on their way are too late.          *)
LEMMA WriteOvertakes ==
    ASSUME IInv, Covered, stored'.rv = stored.rv + 1, NEW r \in late \union InFlight
    PROVE  DueAfter(r)'
<1>1. stored.rv \in Nat
  BY Ends DEF IInv, Server
<1>2. r.obj.rv <= stored.rv /\ r.obj.rv \in Nat
  BY OnTheWay DEF Fits, Request, Server
<1>3. r.obj.rv # stored'.rv
  BY <1>1, <1>2
<1> QED
  BY <1>3 DEF Covered, DueAfter

(* An update that is carried out has been provided for.                    *)
LEMMA StoreCovers ==
    ASSUME IInv, Covered, UNCHANGED remote, NEW r \in late \union InFlight, StoreStatus(r),
           UNCHANGED fuel \/ \E d \in Disturbances \ {"any"} : Spend(d)
    PROVE  /\ Sensible(stored'.phase, stored'.reason) /\ Due'
           /\ \A q \in late \union InFlight : DueAfter(q)'
<1>0. TypeOK /\ Versions /\ stored \in Server /\ stored.rv \in Nat
  BY Ends DEF IInv, Server
<1>1. r \in Request /\ stored = r.obj
  BY OnTheWay DEF StoreStatus, Fits
<1>2. After(r) \in Server /\ Put(After(r))
  BY Zenon, <1>1, AfterFields DEF StoreStatus, After
<1>3. CASE stored' = stored
  BY <1>3, QuietCovers
<1>4. CASE stored' # stored
  <2>1. stored' = [After(r) EXCEPT !.rv = stored.rv + 1] /\ stored'.rv = stored.rv + 1
    BY <1>0, <1>2, <1>4, PutEffect
  <2>2. /\ stored'.uid = After(r).uid /\ stored'.phase = After(r).phase
        /\ stored'.spec = After(r).spec /\ stored'.reason = After(r).reason
    BY <1>2, <2>1 DEF Server
  <2>3. After(r) # stored
    BY <1>0, <1>2, <1>4 DEF Put, stored
  <2>4. /\ Sensible(r.phase, r.reason)
        /\ stored.rv + 1 + Debt(After(r), remote) <= Allowance
    BY <1>1, <2>3 DEF Covered, DueAfter
  <2>5. stored.rv + 1 + Debt(After(r), remote) \in Nat
    BY <1>0, DebtRange
  <2>6. stored.rv + 1 + Debt(After(r), remote) <= Allowance'
    BY <1>0, <2>4, <2>5, AllowanceStays
  <2>7. Debt(stored', remote') = Debt(After(r), remote)
    BY <2>2, DebtFields
  <2>8. Due'
    BY <2>1, <2>6, <2>7 DEF Due
  <2>9. Sensible(stored'.phase, stored'.reason)
    BY <1>1, <2>2, <2>4, AfterFields
  <2> QED
    BY <2>1, <2>8, <2>9, WriteOvertakes
<1> QED
  BY <1>3, <1>4

(* A status update by Reconcile, whatever becomes of it.                   *)
LEMMA UpdateCovers ==
    ASSUME IInv, Covered, UNCHANGED <<remote, late>>, NEW r \in InFlight, NEW ok \in BOOLEAN,
           UpdateStatus(r, ok), pc' = "idle"
    PROVE  Covered'
<1>1. UNCHANGED fuel \/ \E d \in Disturbances \ {"any"} : Spend(d)
  BY DEF UpdateStatus, Lost, Disturbances
<1>2. CASE StoreStatus(r)
  BY <1>1, <1>2, StoreCovers DEF Covered, InFlight
<1>3. CASE UNCHANGED log
  <2>1. stored' = stored
    BY <1>3 DEF stored
  <2> QED
    BY <1>1, <2>1, QuietCovers DEF Covered, InFlight
<1> QED
  BY <1>2, <1>3 DEF UpdateStatus

(* A probe finds nothing to write, or what the object owes, or pays.       *)
LEMMA ProbeCovers ==
    ASSUME IInv, IInv', Covered, Probe
    PROVE  Covered'
<1>0. /\ TypeOK /\ TypeOK' /\ stored \in Server /\ stored.rv \in Nat /\ obj \in Server /\ Fits(obj, stored)
      /\ pc' = "write" /\ UNCHANGED <<log, remote, obj, late>> /\ stored' = stored
  BY Ends DEF IInv, TypeOK, Server, Current, Probe, stored, Free
<1>1. UNCHANGED fuel \/ \E d \in Disturbances \ {"any"} : Spend(d)
  BY DEF Probe, Disturbances
<1>2. /\ Sensible(stored'.phase, stored'.reason) /\ Due' /\ \A r \in late : DueAfter(r)'
  BY <1>0, <1>1, QuietCovers
<1>3. InFlight' = {Outcome'}
  BY <1>0 DEF InFlight
<1>4. /\ Outcome' \in Request /\ Outcome'.obj = obj /\ Outcome'.reason = verdict'
      /\ Outcome'.phase = IF verdict' = "healthy" THEN "Healthy" ELSE "Unhealthy"
  <2>1. verdict' \in Reasons
    BY DEF Probe, Reasons
  <2> QED
    BY <1>0, <2>1 DEF Outcome, Request, Phases
<1>5. verdict' = "healthy" \/ verdict' \in Errors
  BY DEF Probe
<1>6. Sensible(Outcome'.phase, Outcome'.reason)
  BY <1>4, <1>5 DEF Sensible
<1>7. ASSUME obj.rv = stored.rv, After(Outcome') # stored
      PROVE  stored.rv + 1 + Debt(After(Outcome'), remote) <= Allowance'
  <2> DEFINE a == After(Outcome')
  <2> SUFFICES stored.rv + 1 + Debt(a, remote) <= Allowance'
    OBVIOUS
  <2>1. obj = stored /\ stored.uid # 0
    BY <1>0, <1>7 DEF Fits
  <2>2. /\ a.uid = stored.uid /\ a.spec = stored.spec /\ a.phase = Outcome'.phase
        /\ stored.phase # Outcome'.phase \/ stored.reason # verdict'
    BY <1>4, <1>7, <2>1, AfterFields
  <2>3. /\ Sensible(stored.phase, stored.reason) /\ stored.phase \in Phases
        /\ stored.rv + Debt(stored, remote) <= Allowance
    BY <1>0 DEF Covered, Due, Server
  <2>4. Debt(a, remote) \in {0, 1, 2} /\ Debt(stored, remote) \in {0, 1, 2}
    BY DebtRange
  <2>5. stored.rv <= Allowance /\ stored.rv + 1 <= stored.rv + 2
    BY <1>0, <2>3, <2>4, Smaller
  <2> HIDE DEF a
  <2>6. ASSUME Debt(a, remote) = 0, Debt(stored, remote) >= 1, UNCHANGED fuel
        PROVE  stored.rv + 1 + Debt(a, remote) <= Allowance'
    <3>1. Debt(stored, remote) \in {1, 2}
      BY <2>4, <2>6
    <3>2. stored.rv + 1 <= Allowance
      BY <1>0, <2>3, <3>1, Smaller
    <3>3. Allowance' = Allowance
      BY <2>6 DEF Allowance, Spent
    <3> QED
      BY <1>0, <2>6, <3>2, <3>3
  <2>7. CASE obj.spec \in remote /\ verdict' = "healthy" /\ UNCHANGED fuel
    <3>1. Debt(a, remote) = 0
      BY <1>4, <2>1, <2>2, <2>7 DEF Debt
    <3>2. Debt(stored, remote) >= 1
      BY <1>4, <2>1, <2>2, <2>3, <2>7 DEF Debt, Sensible, Phases
    <3> QED
      BY <2>6, <2>7, <3>1, <3>2
  <2>8. CASE /\ obj.spec \notin remote /\ verdict' \in Errors
             /\ verdict' = obj.reason \/ obj.reason \notin Errors
             /\ UNCHANGED fuel
    <3>0. verdict' # "healthy"
      BY <2>8, FrpServerAssumption
    <3>1. Debt(a, remote) = 0
      BY <1>4, <2>1, <2>2, <2>8, <3>0 DEF Debt
    <3>2. Debt(stored, remote) >= 1
      BY <1>4, <2>1, <2>2, <2>3, <2>8, <3>0 DEF Debt, Sensible, Phases
    <3> QED
      BY <2>6, <2>8, <3>1, <3>2
  <2>9. CASE obj.spec \notin remote /\ verdict' \in Errors /\ Spend("text")
    <3>0. verdict' # "healthy"
      BY <2>9, FrpServerAssumption
    <3>1. Debt(a, remote) = 0
      BY <1>4, <2>1, <2>2, <2>9, <3>0 DEF Debt
    <3>2. stored.rv + 1 <= Allowance'
      BY <1>0, <2>5, <2>9, Payment DEF Price, Disturbances
    <3> QED
      BY <1>0, <3>1, <3>2
  <2>10. CASE verdict' \in Errors /\ Spend("fault")
    <3>0. verdict' # "healthy"
      BY <2>10, FrpServerAssumption
    <3>1. Debt(a, remote) \in {0, 1}
      BY <1>4, <2>1, <2>2, <2>10, <3>0 DEF Debt
    <3>2. stored.rv + 2 <= Allowance'
      BY <1>0, <2>5, <2>10, Payment DEF Price, Disturbances
    <3> QED
      BY <1>0, <3>1, <3>2, Smaller
  <2> QED
    BY Zenon, <2>7, <2>8, <2>9, <2>10 DEF Probe
<1>8. DueAfter(Outcome)'
  BY <1>0, <1>4, <1>6, <1>7 DEF DueAfter
<1> QED
  BY <1>0, <1>2, <1>3, <1>8 DEF Covered

(* A user's write pays for itself and for the two that may follow.         *)
LEMMA EditCovers ==
    ASSUME IInv, IInv', Covered, NEW s \in Server, Put(s) \/ NewVersion(s), Spend("edit"),
           UNCHANGED <<remote, manager>>, Sensible(s.phase, s.reason)
    PROVE  Covered'
<1>0. /\ TypeOK /\ TypeOK' /\ Versions /\ stored \in Server /\ stored.rv \in Nat
      /\ UNCHANGED <<pc, obj, verdict, late>>
  BY Ends DEF IInv, Server, manager, worker
<1>1. InFlight' = InFlight /\ late' = late
  BY <1>0 DEF InFlight, Pending, Outcome
<1>2. CASE stored' = stored
  BY <1>1, <1>2, QuietCovers DEF Covered, Disturbances
<1>3. CASE stored' # stored
  <2>1. /\ stored'.rv = stored.rv + 1
        /\ stored'.phase = s.phase /\ stored'.reason = s.reason
    BY <1>0, <1>3, PutEffect, NewVersionEffect
  <2>2. stored.rv <= Allowance
    <3>1. Debt(stored, remote) \in {0, 1, 2} /\ stored.rv + Debt(stored, remote) <= Allowance
      BY DebtRange DEF Covered, Due
    <3> QED
      BY <1>0, <3>1, Smaller
  <2>3. stored.rv + 3 <= Allowance'
    BY <1>0, <2>2, Payment DEF Price, Disturbances
  <2>4. Due'
    <3>1. Debt(stored', remote') \in {0, 1, 2}
      BY DebtRange
    <3>2. /\ stored'.rv + Debt(stored', remote') \in Nat
          /\ stored'.rv + Debt(stored', remote') <= stored.rv + 3
      BY <1>0, <2>1, <3>1
    <3>3. stored'.rv + Debt(stored', remote') <= Allowance'
      BY <1>0, <2>3, <3>2, Smaller
    <3> QED
      BY <3>3 DEF Due
  <2> QED
    BY <1>1, <2>1, <2>4, WriteOvertakes DEF Covered
<1> QED
  BY <1>2, <1>3

(* A change of the frp server pays for the verdict that changes with it.   *)
LEMMA RemoteCovers ==
    ASSUME IInv, IInv', Covered, ChangeRemote
    PROVE  Covered'
<1>0. /\ TypeOK /\ TypeOK' /\ stored \in Server /\ stored.rv \in Nat /\ stored' = stored
      /\ UNCHANGED <<pc, obj, verdict, late>> /\ Spend("remote")
  BY Ends DEF IInv, Server, manager, worker, ChangeRemote, stored
<1>1. InFlight' = InFlight /\ late' = late
  BY <1>0 DEF InFlight, Pending, Outcome
<1>2. ASSUME NEW n \in Nat, NEW s, n + Debt(s, remote) <= Allowance
      PROVE  n + Debt(s, remote') <= Allowance'
  <2>1. Debt(s, remote) \in {0, 1, 2} /\ Debt(s, remote') \in {0, 1, 2}
    BY DebtRange
  <2>2. Debt(s, remote') <= Debt(s, remote) + 1
    BY DebtMoves
  <2>3. n + Debt(s, remote) \in Nat
    BY <2>1
  <2>4. n + Debt(s, remote) + 1 <= Allowance'
    BY <1>0, <1>2, <2>3, Payment DEF Price, Disturbances
  <2>5. /\ n + Debt(s, remote') \in Nat /\ n + Debt(s, remote) + 1 \in Nat
        /\ n + Debt(s, remote') <= n + Debt(s, remote) + 1
    BY <2>1, <2>2
  <2> QED
    BY <1>0, <2>4, <2>5, Smaller
<1>3. Due'
  BY <1>0, <1>2 DEF Covered, Due
<1>4. ASSUME NEW r \in late \union InFlight
      PROVE  DueAfter(r)'
  <2>1. DueAfter(r) /\ stored.rv + 1 \in Nat
    BY <1>0, <1>4 DEF Covered
  <2>2. /\ stored.rv + 1 + Debt(After(r), remote) <= Allowance
        => stored.rv + 1 + Debt(After(r), remote') <= Allowance'
    BY <1>2, <2>1
  <2> QED
    BY <1>0, <2>1, <2>2 DEF DueAfter
<1> QED
  BY <1>0, <1>1, <1>3, <1>4 DEF Covered

(* What users write has a phase that goes with its reason.                 *)
LEMMA OthersCover ==
    ASSUME IInv, IInv', Covered, Others
    PROVE  Covered'
<1>0. stored \in Server /\ stored.rv \in Nat /\ remote \subseteq Specs
      /\ Sensible(stored.phase, stored.reason)
  BY Ends DEF IInv, TypeOK, Server, Covered
<1>1. CASE CreateServer
  <2>1. PICK s \in Specs : NewVersion(Fresh(stored.rv + 1, s))
    BY <1>1 DEF CreateServer
  <2>2. Fresh(stored.rv + 1, s) \in Server /\ Fresh(stored.rv + 1, s).phase = "none"
    BY <1>0, FreshType
  <2> QED
    BY <1>1, <2>1, <2>2, EditCovers DEF CreateServer, Sensible
<1>2. CASE EditServer
  <2>1. PICK s \in Specs : NewVersion([stored EXCEPT !.spec = s])
    BY <1>2 DEF EditServer
  <2> DEFINE t == [stored EXCEPT !.spec = s]
  <2>2. t \in Server /\ t.phase = stored.phase /\ t.reason = stored.reason
    BY <1>0 DEF Server
  <2> HIDE DEF t
  <2>3. Sensible(t.phase, t.reason)
    BY <1>0, <2>2
  <2> QED
    BY Zenon, <1>2, <2>1, <2>2, <2>3, EditCovers DEF EditServer, t
<1>3. CASE DeleteServer
  BY <1>3, NoServerType, EditCovers DEF DeleteServer, Sensible
<1>4. CASE SetUnknown
  <2> DEFINE t == [stored EXCEPT !.phase = "Unknown"]
  <2>1. t \in Server /\ t.phase = "Unknown"
    BY <1>0 DEF Server, Phases
  <2>2. Put(t)
    BY <1>4 DEF SetUnknown
  <2> HIDE DEF t
  <2> QED
    BY <1>4, <2>1, <2>2, EditCovers DEF SetUnknown, Sensible
<1>5. CASE ChangeRemote
  BY <1>5, RemoteCovers
<1> QED
  BY <1>1, <1>2, <1>3, <1>4, <1>5 DEF Others

(* The informer and the process around Reconcile write nothing but what is *)
(* on its way.                                                             *)
LEMMA ManagerCovers ==
    ASSUME IInv, Covered, Manager \/ UNCHANGED vars
    PROVE  Covered'
<1>1. CASE Deliver \/ Relist \/ BackoffExpires \/ Resync \/ UNCHANGED vars
  <2>1. stored' = stored
    BY <1>1, DeliverEffect, ListEffect DEF IInv, Relist, BackoffExpires, Resync, vars, stored
  <2>2. UNCHANGED <<remote, pc, obj, verdict, late, fuel>>
    BY <1>1 DEF Deliver, Relist, BackoffExpires, Resync, vars, worker
  <2>3. InFlight' = InFlight
    BY <2>2 DEF InFlight, Pending, Outcome
  <2> QED
    BY <2>1, <2>2, <2>3, QuietCovers DEF Covered
<1>2. CASE Restart
  <2>1. stored' = stored
    BY <1>2, ListEffect DEF IInv, Restart
  <2>2. late' = late \union InFlight /\ pc' = "idle" /\ UNCHANGED remote /\ Spend("crash")
    BY <1>2 DEF Restart, Reset
  <2>3. InFlight' = {}
    BY <2>2 DEF InFlight
  <2>4. /\ Sensible(stored'.phase, stored'.reason) /\ Due'
        /\ \A r \in late \union InFlight : DueAfter(r)'
    BY <2>1, <2>2, QuietCovers DEF Disturbances
  <2> QED
    BY <2>2, <2>3, <2>4 DEF Covered
<1>3. CASE LateUpdate
  <2>1. PICK r \in late : late' = late \ {r} /\ (StoreStatus(r) \/ UNCHANGED log)
    BY <1>3 DEF LateUpdate
  <2>2. UNCHANGED <<remote, pc, obj, verdict, fuel>>
    BY <1>3 DEF LateUpdate
  <2>3. InFlight' = InFlight
    BY <2>2 DEF InFlight, Pending, Outcome
  <2>4. /\ Sensible(stored'.phase, stored'.reason) /\ Due'
        /\ \A q \in late \union InFlight : DueAfter(q)'
    <3>1. CASE StoreStatus(r)
      BY <2>2, <3>1, StoreCovers
    <3>2. CASE UNCHANGED log
      BY <2>2, <3>2, QuietCovers DEF stored
    <3> QED
      BY <2>1, <3>1, <3>2
  <2> QED
    BY <2>1, <2>3, <2>4 DEF Covered
<1>4. CASE OtherServer
  <2>1. stored' = stored /\ InFlight' = InFlight /\ UNCHANGED <<remote, late, fuel>>
    BY <1>4 DEF OtherServer, InFlight, stored
  <2> QED
    BY <2>1, QuietCovers DEF Covered
<1> QED
  BY <1>1, <1>2, <1>3, <1>4 DEF Manager

(* Reconcile writes what it was given, and what it reads first is Unknown. *)
LEMMA ReconcileCovers ==
    ASSUME IInv, IInv', Covered, Reconcile
    PROVE  Covered'
<1>1. CASE GetServer
  <2>1. stored' = stored /\ UNCHANGED <<remote, late, fuel, verdict>> /\ pc = "idle"
        /\ pc' \in {"idle", "pend", "probe"}
    BY <1>1 DEF GetServer, stored
  <2>2. /\ Sensible(stored'.phase, stored'.reason) /\ Due' /\ \A r \in late : DueAfter(r)'
    BY <2>1, QuietCovers
  <2>3. ASSUME pc' = "pend"
        PROVE  DueAfter(Pending)'
    <3>1. /\ Fits(obj', stored) /\ obj'.phase = "Unknown" /\ obj' \in Server
          /\ stored \in Server /\ stored.rv \in Nat
      BY <2>1, <2>3, Ends DEF IInv, Current, TypeOK, Server, Free
    <3>2. /\ Pending' \in Request /\ Pending'.obj = obj' /\ Pending'.phase = "Pending"
      <4>1. obj'.reason \in Reasons
        BY <3>1 DEF Server
      <4> QED
        BY <3>1, <4>1 DEF Pending, Request, Phases
    <3>3. Sensible(Pending'.phase, Pending'.reason)
      BY <3>2 DEF Sensible
    <3>4. ASSUME obj'.rv = stored.rv
          PROVE  stored.rv + 1 + Debt(After(Pending'), remote) <= Allowance
      <4>1. obj' = stored /\ stored.uid # 0
        BY <3>1, <3>4 DEF Fits
      <4>2. Debt(stored, remote) = 2
        BY <3>1, <4>1 DEF Debt
      <4>3. Debt(After(Pending'), remote) = 1
        <5>1. After(Pending').phase = "Pending" /\ After(Pending').uid # 0
          BY <3>2, <4>1, AfterFields
        <5> QED
          BY <5>1 DEF Debt
      <4>4. stored.rv + 1 + 1 = stored.rv + 2
        BY <3>1
      <4>5. stored.rv + 2 <= Allowance
        BY <4>2 DEF Covered, Due
      <4> QED
        BY <4>3, <4>4, <4>5
    <3>5. Allowance' = Allowance
      BY <2>1 DEF Allowance, Spent
    <3> QED
      BY <2>1, <3>2, <3>3, <3>4, <3>5 DEF DueAfter
  <2>4. \A r \in InFlight' : pc' = "pend" /\ r = Pending'
    BY <2>1 DEF InFlight
  <2> QED
    BY <2>1, <2>2, <2>3, <2>4 DEF Covered
<1>2. CASE GetServerFails
  <2>1. stored' = stored /\ UNCHANGED <<remote, late, pc, obj, verdict>> /\ Spend("get")
    BY <1>2 DEF GetServerFails, stored
  <2>2. InFlight' = InFlight
    BY <2>1 DEF InFlight, Pending, Outcome
  <2> QED
    BY <2>1, <2>2, QuietCovers DEF Covered, Disturbances
<1>3. CASE SetPending
  <2>1. PICK ok \in BOOLEAN : UpdateStatus(Pending, ok) /\ Return(ok)
    BY <1>3 DEF SetPending
  <2>2. Pending \in InFlight /\ pc' = "idle" /\ UNCHANGED <<remote, late>>
    BY <1>3, <2>1 DEF SetPending, InFlight, Return, Reset
  <2> QED
    BY <2>1, <2>2, UpdateCovers
<1>4. CASE Probe
  BY <1>4, ProbeCovers
<1>5. CASE WriteVerdict
  <2>1. PICK ok \in BOOLEAN : UpdateStatus(Outcome, ok) /\ Return(ok /\ verdict = "healthy")
    BY <1>5 DEF WriteVerdict
  <2>2. Outcome \in InFlight /\ pc' = "idle" /\ UNCHANGED <<remote, late>>
    BY <1>5, <2>1 DEF WriteVerdict, InFlight, Return, Reset
  <2> QED
    BY <2>1, <2>2, UpdateCovers
<1> QED
  BY <1>1, <1>2, <1>3, <1>4, <1>5 DEF Reconcile

(* The controller does not feed on its own events: the object never has    *)
(* more versions than the disturbances have paid for, with any number of   *)
(* error texts and of late updates (frpserver_controller.go:71-93, 97-101).*)
THEOREM WritesAreBounded == Spec => []WritesPaidFor
<1>1. Init => Covered
  <2> SUFFICES ASSUME Init
               PROVE  Covered
    OBVIOUS
  <2>1. stored = NoServer
    <3>1. NoServer \in Server
      BY NoServerType
    <3>2. Len(log) = 1 /\ log[1] = NoServer
      BY <3>1, LogSingle DEF Init
    <3> QED
      BY <3>2 DEF stored
  <2>2. NoServer.uid = 0 /\ NoServer.phase = "none" /\ NoServer.rv = 0
    BY DEF NoServer, Fresh
  <2>3. Allowance = 0
    <3>1. \A d \in {"edit", "remote", "fault", "text"} : Fuel[d] \in Nat
      BY FrpServerAssumption DEF Disturbances
    <3> QED
      BY <3>1 DEF Init, Allowance, Spent
  <2>4. Debt(stored, remote) = 0
    BY <2>1, <2>2 DEF Debt
  <2> QED
    BY <2>1, <2>2, <2>3, <2>4 DEF Init, Covered, Due, Sensible, InFlight
<1>2. IInv /\ IInv' /\ Covered /\ [Next]_vars => Covered'
  BY ReconcileCovers, ManagerCovers, OthersCover DEF Next
<1>3. IInv /\ Covered => WritesPaidFor
  <2> SUFFICES ASSUME IInv, Covered
               PROVE  WritesPaidFor
    OBVIOUS
  <2>1. stored.rv \in Nat /\ Debt(stored, remote) \in {0, 1, 2}
    BY Ends, DebtRange DEF IInv, Server
  <2>2. /\ fuel["edit"] \in Nat /\ fuel["remote"] \in Nat /\ fuel["fault"] \in Nat /\ fuel["text"] \in Nat
        /\ Fuel["edit"] \in Nat /\ Fuel["remote"] \in Nat /\ Fuel["fault"] \in Nat /\ Fuel["text"] \in Nat
    BY FrpServerAssumption DEF IInv, TypeOK, Disturbances
  <2>3. stored.rv + Debt(stored, remote) <= Allowance
    BY DEF Covered, Due
  <2> QED
    BY <2>1, <2>2, <2>3 DEF WritesPaidFor, Allowance, Spent
<1> QED
  BY <1>1, <1>2, <1>3, Invariance, PTL DEF Spec

-----------------------------------------------------------------------------
(* Honest reports.                                                         *)

(* An update on its way: there have been grounds for it, if the object is  *)
(* still the version that was read.                                        *)
Grounded(r) ==
    /\ r.phase \in {"Pending", "Healthy", "Unhealthy"}
    /\ r.phase = "Pending" => r.obj.phase = "Unknown"
    /\ r.phase # "Pending" /\ r.obj.rv = stored.rv => r.phase \in grounds

(* There are grounds for what is the case at the moment, and for every     *)
(* verdict on its way to the object.                                       *)
Honest ==
    /\ Report!Finding(open) \subseteq grounds
    /\ \A r \in late \union InFlight : Grounded(r)

(* What is under way is a request for the object as it was read.           *)
LEMMA FlightFits ==
    ASSUME IInv, NEW r \in late \union InFlight
    PROVE  r \in Request /\ Fits(r.obj, stored)
<1>1. Pending \in Request /\ Outcome \in Request /\ Pending.obj = obj /\ Outcome.obj = obj
  BY RequestType DEF IInv
<1> QED
  BY <1>1 DEF InFlight, IInv, TypeOK, Current, Free

(* The stored object stays or gets a new version; requests outlive only    *)
(* the process that made them.                                             *)
LEMMA StoredMoves ==
    ASSUME IInv, [Next]_vars
    PROVE  /\ stored' = stored \/ stored'.rv = stored.rv + 1
           /\ late' \subseteq late \union InFlight
<1>1. CASE WriteVerdict
  <2>1. PICK ok \in BOOLEAN : UpdateStatus(Outcome, ok)
    BY <1>1 DEF WriteVerdict
  <2>2. Outcome \in Request /\ Fits(Outcome.obj, stored)
    BY <1>1, RequestType DEF WriteVerdict, Current, IInv, Free
  <2> QED
    BY <1>1, <2>1, <2>2, UpdateStatusEffect DEF WriteVerdict
<1>2. CASE SetPending
  <2>1. PICK ok \in BOOLEAN : UpdateStatus(Pending, ok)
    BY <1>2 DEF SetPending
  <2>2. Pending \in Request /\ Fits(Pending.obj, stored)
    BY <1>2, RequestType DEF SetPending, Current, IInv, Free
  <2> QED
    BY <1>2, <2>1, <2>2, UpdateStatusEffect DEF SetPending
<1>3. CASE GetServer \/ GetServerFails \/ Probe \/ BackoffExpires \/ OtherServer \/ Resync \/ UNCHANGED vars
  BY <1>3 DEF GetServer, GetServerFails, Probe, BackoffExpires, OtherServer, Resync, vars, worker,
              stored
<1>4. CASE Deliver \/ Relist \/ Restart
  BY <1>4, DeliverEffect, ListEffect DEF IInv, Deliver, Relist, Restart, worker
<1>5. CASE LateUpdate
  BY <1>5, LateEffect
<1>6. CASE Others
  BY <1>6, OthersEffect DEF IInv, manager, worker
<1> QED
  BY <1>1, <1>2, <1>3, <1>4, <1>5, <1>6 DEF Next, Reconcile, Manager

(* Grounds are forgotten only with the version they belong to.             *)
LEMMA GroundedStays ==
    ASSUME IInv, NEW r \in late \union InFlight, Grounded(r), [Next]_vars, Remember
    PROVE  Grounded(r)'
<1>1. r \in Request /\ Fits(r.obj, stored)
  BY FlightFits
<1>2. CASE stored' = stored
  BY <1>2 DEF Grounded, Remember
<1>3. CASE stored'.rv = stored.rv + 1
  <2>1. r.obj.rv \in Nat /\ stored.rv \in Nat /\ r.obj.rv <= stored.rv
    BY <1>1, Ends DEF IInv, Request, Server, Fits
  <2>2. r.obj.rv # stored'.rv
    BY <1>3, <2>1
  <2> QED
    BY <2>2 DEF Grounded
<1> QED
  BY <1>2, <1>3, StoredMoves

(* A login leaves grounds for what it has found.                           *)
LEMMA ProbeGrounded ==
    ASSUME IInv, Honest, Probe, Remember
    PROVE  Grounded(Outcome)'
<1>0. /\ Fits(obj, stored) /\ pc' = "write" /\ obj' = obj /\ stored' = stored
      /\ verdict \in Reasons /\ remote' = remote
  BY DEF Probe, IInv, Current, TypeOK, stored, Free
<1>1. /\ Outcome'.obj = obj
      /\ Outcome'.phase = (IF verdict' = "healthy" THEN "Healthy" ELSE "Unhealthy")
  BY <1>0 DEF Outcome
<1>2. grounds \subseteq grounds' /\ Report!Finding(open) \subseteq grounds
  BY <1>0 DEF Remember, Honest
<1>3. obj.rv = stored.rv => obj = stored /\ stored.uid # 0
  BY <1>0 DEF Fits
<1>4. CASE obj.spec \in remote /\ verdict' = "healthy"
  BY <1>0, <1>1, <1>2, <1>3, <1>4 DEF Grounded, open, Report!Finding
<1>5. CASE verdict' \in Errors /\ obj.spec \notin remote
  <2>1. verdict' # "healthy"
    BY <1>5, FrpServerAssumption
  <2> QED
    BY <1>0, <1>1, <1>2, <1>3, <1>5, <2>1 DEF Grounded, open, Report!Finding
<1>6. CASE verdict' \in Errors /\ Spend("fault")
  <2>1. verdict' # "healthy"
    BY <1>6, FrpServerAssumption
  <2>2. fuel["fault"] \in Nat /\ fuel'["fault"] = fuel["fault"] - 1
    BY <1>6 DEF IInv, TypeOK, Disturbances, Spend
  <2>3. ProbeFails
    BY <1>0, <2>2 DEF ProbeFails
  <2>4. "Unhealthy" \in grounds'
    BY <2>3 DEF Remember
  <2> QED
    BY <1>0, <1>1, <2>1, <2>4 DEF Grounded
<1> QED
  BY <1>4, <1>5, <1>6 DEF Probe

(* Where the worker is about to write, it comes from a login or was there  *)
(* before.                                                                 *)
LEMMA ComesToWrite ==
    ASSUME [Next]_vars, pc' = "write"
    PROVE  Probe \/ (pc = "write" /\ obj' = obj /\ verdict' = verdict)
<1>1. CASE Reconcile
  BY <1>1 DEF Reconcile, GetServer, GetServerFails, SetPending, WriteVerdict, Return, Reset
<1>2. CASE Manager \/ UNCHANGED vars
  BY <1>2 DEF Manager, Deliver, Relist, BackoffExpires, OtherServer, Resync, Restart, Reset, LateUpdate,
              worker, vars
<1>3. CASE Others
  BY <1>3 DEF Others, CreateServer, EditServer, DeleteServer, SetUnknown, ChangeRemote, manager, worker
<1> QED
  BY <1>1, <1>2, <1>3 DEF Next

(* Every step keeps the grounds together.                                  *)
LEMMA HonestStep ==
    ASSUME IInv, IInv', Honest, [Next]_vars, Remember
    PROVE  Honest'
<1>1. (Report!Finding(open) \subseteq grounds)'
  BY DEF Remember
<1>2. ASSUME NEW r \in late' PROVE Grounded(r)'
  BY <1>2, StoredMoves, GroundedStays DEF Honest
<1>3. ASSUME pc' = "pend" PROVE Grounded(Pending)'
  <2>1. obj'.phase = "Unknown"
    BY <1>3 DEF IInv, Current, Free
  <2> QED
    BY <2>1 DEF Grounded, Pending
<1>4. ASSUME pc' = "write" PROVE Grounded(Outcome)'
  <2>1. CASE Probe
    BY <2>1, ProbeGrounded
  <2>2. CASE pc = "write" /\ obj' = obj /\ verdict' = verdict
    <3>1. Outcome \in InFlight /\ Outcome' = Outcome
      BY <2>2 DEF InFlight, Outcome
    <3>2. Grounded(Outcome)
      BY <3>1 DEF Honest
    <3> DEFINE r == Outcome
    <3>3. r \in late \union InFlight /\ Grounded(r)
      BY <3>1, <3>2
    <3> QED
      BY <3>1, <3>3, GroundedStays DEF Grounded
  <2> QED
    BY <1>4, <2>1, <2>2, ComesToWrite
<1> QED
  BY <1>1, <1>2, <1>3, <1>4 DEF Honest, InFlight

(* The fields of the object after a write.                                 *)
LEMMA PutFields ==
    ASSUME TypeOK, Versions, NEW s \in Server, Put(s)
    PROVE  \/ stored' = stored /\ s = stored
           \/ /\ stored' # stored
              /\ stored'.uid = s.uid /\ stored'.spec = s.spec /\ stored'.phase = s.phase
<1>0. stored \in Server /\ stored.rv \in Nat
  BY Ends DEF Server
<1>1. CASE stored' = stored /\ s = stored
  BY <1>1
<1>2. CASE stored' = [s EXCEPT !.rv = stored.rv + 1] /\ stored'.rv = stored.rv + 1
  <2>1. stored'.rv # stored.rv
    BY <1>0, <1>2
  <2>2. [s EXCEPT !.rv = stored.rv + 1].uid = s.uid
    BY DEF Server
  <2>3. [s EXCEPT !.rv = stored.rv + 1].spec = s.spec
    BY DEF Server
  <2>4. [s EXCEPT !.rv = stored.rv + 1].phase = s.phase
    BY DEF Server
  <2> QED
    BY <1>2, <2>1, <2>2, <2>3, <2>4
<1> QED
  BY <1>1, <1>2, PutEffect

(* Nothing the users see has changed: the report has not either.           *)
LEMMA QuietReport ==
    ASSUME Honest, Remember, stored' = stored, remote' = remote, ~ProbeFails
    PROVE  UNCHANGED Report!vars
<1>1. object' = object /\ open' = open
  BY DEF object, open
<1>2. grounds' = grounds
  BY <1>1 DEF Remember, Honest
<1> QED
  BY <1>1, <1>2 DEF Report!vars

(* A status update, by Reconcile or left behind by a dead process, is a    *)
(* report, or sends an Unknown object on to Pending.                       *)
LEMMA StatusReport ==
    ASSUME IInv, Honest, Remember, NEW r \in late \union InFlight,
           StoreStatus(r), remote' = remote, ~ProbeFails
    PROVE  [Report!Next]_(Report!vars)
<1>0. /\ TypeOK /\ Versions /\ stored \in Server /\ r \in Request
      /\ stored = r.obj /\ stored.uid # 0 /\ Grounded(r)
  BY FlightFits, Ends DEF IInv, Fits, StoreStatus, Honest
<1>1. r.phase \in Phases /\ r.reason \in Reasons
  BY <1>0 DEF Request
<1> DEFINE s == [stored EXCEPT !.phase = r.phase, !.reason = r.reason]
<1>2. s \in Server /\ s.phase = r.phase /\ s.uid = stored.uid /\ s.spec = stored.spec
  BY Zenon, <1>0, <1>1 DEF Server
<1>3. Put(s)
  BY DEF StoreStatus
<1> HIDE DEF s
<1>4. CASE stored' = stored
  BY <1>4, QuietReport
<1>5. CASE stored' # stored
  <2>1. stored'.uid = stored.uid /\ stored'.spec = stored.spec /\ stored'.phase = r.phase
    BY <1>0, <1>2, <1>3, <1>5, PutFields
  <2>2. object' = object /\ open' = open
    BY <2>1 DEF object, open
  <2>3. grounds' = Report!Finding(open)
    BY <1>5, <2>2 DEF Remember
  <2>4. CASE r.phase = "Pending"
    <3>1. stored.phase = "Unknown"
      BY <1>0, <2>4 DEF Grounded
    <3> QED
      BY <2>1, <2>2, <2>3, <2>4, <3>1 DEF Report!Next, Report!Defer
  <2>5. CASE r.phase # "Pending"
    <3>1. r.phase \in grounds
      BY <1>0, <2>5 DEF Grounded
    <3> QED
      BY <2>1, <2>2, <2>3, <3>1 DEF Report!Next, Report!Report
  <2> QED
    BY <2>4, <2>5
<1> QED
  BY <1>4, <1>5

(* An UpdateStatus call is a status update, or changes nothing.            *)
LEMMA CallReport ==
    ASSUME IInv, Honest, Remember, NEW r \in late \union InFlight, NEW ok \in BOOLEAN,
           UpdateStatus(r, ok), remote' = remote, ~ProbeFails
    PROVE  [Report!Next]_(Report!vars)
<1>1. CASE StoreStatus(r)
  BY <1>1, StatusReport
<1>2. CASE UNCHANGED log
  BY <1>2, QuietReport DEF stored
<1> QED
  BY <1>1, <1>2 DEF UpdateStatus, Lost

(* Every step of Reconcile reports honestly.                               *)
LEMMA ReconcileReport ==
    ASSUME IInv, Honest, Remember, Reconcile
    PROVE  [Report!Next]_(Report!vars)
<1>1. CASE GetServer \/ GetServerFails
  <2>1. stored' = stored /\ remote' = remote /\ pc' # "write"
    BY <1>1 DEF GetServer, GetServerFails, stored
  <2> QED
    BY <2>1, QuietReport DEF ProbeFails
<1>2. CASE SetPending
  <2>1. PICK ok \in BOOLEAN : UpdateStatus(Pending, ok) /\ Return(ok)
    BY <1>2 DEF SetPending
  <2>2. Pending \in late \union InFlight /\ remote' = remote /\ ~ProbeFails
    BY <1>2, <2>1 DEF SetPending, InFlight, ProbeFails, Return, Reset
  <2> QED
    BY <2>1, <2>2, CallReport
<1>3. CASE Probe
  <2>1. stored' = stored /\ remote' = remote
    BY <1>3 DEF Probe, stored
  <2>2. CASE ~ProbeFails
    BY <2>1, <2>2, QuietReport
  <2>3. CASE ProbeFails
    <3>1. object' = object /\ open' = open
      BY <2>1 DEF object, open
    <3>2. grounds' = grounds \union {"Unhealthy"}
      BY <2>1, <2>3, <3>1 DEF Remember, Honest
    <3> QED
      BY <2>1, <3>1, <3>2 DEF Report!Next, Report!Trouble
  <2> QED
    BY <2>2, <2>3
<1>4. CASE WriteVerdict
  <2>1. PICK ok \in BOOLEAN : UpdateStatus(Outcome, ok) /\ Return(ok /\ verdict = "healthy")
    BY <1>4 DEF WriteVerdict
  <2>2. Outcome \in late \union InFlight /\ remote' = remote /\ ~ProbeFails
    BY <1>4, <2>1 DEF WriteVerdict, InFlight, ProbeFails, Return, Reset
  <2> QED
    BY <2>1, <2>2, CallReport
<1> QED
  BY <1>1, <1>2, <1>3, <1>4 DEF Reconcile

(* So does every step of the manager around it.                            *)
LEMMA ManagerReport ==
    ASSUME IInv, Honest, Remember, Manager \/ UNCHANGED vars
    PROVE  [Report!Next]_(Report!vars)
<1>1. CASE Deliver \/ Relist \/ BackoffExpires \/ Resync \/ UNCHANGED vars
  <2>1. stored' = stored
    BY <1>1, DeliverEffect, ListEffect DEF IInv, Relist, BackoffExpires, Resync, vars, stored
  <2>2. remote' = remote /\ fuel' = fuel
    BY <1>1 DEF Deliver, Relist, BackoffExpires, Resync, vars
  <2> QED
    BY <2>1, <2>2, QuietReport DEF ProbeFails
<1>2. CASE Restart
  <2>1. stored' = stored /\ remote' = remote /\ pc' # "write"
    BY <1>2, ListEffect DEF IInv, Restart, Reset
  <2> QED
    BY <2>1, QuietReport DEF ProbeFails
<1>3. CASE LateUpdate
  <2>1. PICK r \in late : StoreStatus(r) \/ UNCHANGED log
    BY <1>3 DEF LateUpdate
  <2>2. remote' = remote /\ ~ProbeFails
    BY <1>3 DEF LateUpdate, ProbeFails
  <2>3. CASE StoreStatus(r)
    BY <2>1, <2>2, <2>3, StatusReport
  <2>4. CASE UNCHANGED log
    BY <2>2, <2>4, QuietReport DEF stored
  <2> QED
    BY <2>1, <2>3, <2>4
<1>4. CASE OtherServer
  <2>1. stored' = stored /\ UNCHANGED <<remote, fuel>>
    BY <1>4 DEF OtherServer, stored
  <2> QED
    BY <2>1, QuietReport DEF ProbeFails
<1> QED
  BY <1>1, <1>2, <1>3, <1>4 DEF Manager

(* What users and the frp server do is what the report allows them.        *)
LEMMA OthersReport ==
    ASSUME IInv, Honest, Remember, Others
    PROVE  [Report!Next]_(Report!vars)
<1>0. TypeOK /\ Versions /\ stored \in Server /\ stored.rv \in Nat /\ remote \subseteq Specs
  BY Ends DEF IInv, TypeOK, Server
<1>1. ~ProbeFails
  <2>1. fuel'["fault"] = fuel["fault"]
    BY <1>0, SpendType DEF Others, CreateServer, EditServer, DeleteServer, SetUnknown, ChangeRemote, Disturbances
  <2> QED
    BY <2>1 DEF ProbeFails
<1>2. CASE stored' = stored /\ remote' = remote
  BY <1>1, <1>2, QuietReport
<1>3. stored' # stored => grounds' = Report!Finding(open')
  BY <1>1 DEF Remember
<1>4. CASE CreateServer /\ stored' # stored
  <2>1. PICK s \in Specs : NewVersion(Fresh(stored.rv + 1, s))
    BY <1>4 DEF CreateServer
  <2>2. stored.rv + 1 \in Nat /\ stored.rv + 1 # 0
    BY <1>0
  <2>3. /\ Fresh(stored.rv + 1, s) \in Server /\ Fresh(stored.rv + 1, s).uid # 0
        /\ Fresh(stored.rv + 1, s).phase = "none" /\ Fresh(stored.rv + 1, s).spec = s
    BY <2>2, FreshType DEF Fresh
  <2>4. stored'.uid # 0 /\ stored'.spec = s /\ stored'.phase = "none"
    BY <1>0, <2>1, <2>3, NewVersionEffect
  <2>5. object = {} /\ object' # {} /\ open' \in BOOLEAN
    BY <1>4, <2>4 DEF CreateServer, object, open
  <2> QED
    BY <1>3, <1>4, <2>4, <2>5 DEF Report!Next, Report!Submit
<1>5. CASE EditServer /\ stored' # stored
  <2>1. PICK s \in Specs : NewVersion([stored EXCEPT !.spec = s])
    BY <1>5 DEF EditServer
  <2> DEFINE e == [stored EXCEPT !.spec = s]
  <2>2. e \in Server /\ e.uid = stored.uid /\ e.spec = s /\ e.phase = stored.phase
    BY <1>0, <2>1 DEF Server
  <2>3. NewVersion(e) /\ stored.uid # 0 /\ remote' = remote
    BY <1>5, <2>1 DEF EditServer
  <2> HIDE DEF e
  <2>4. stored'.uid = stored.uid /\ stored'.spec = s /\ stored'.phase = stored.phase
    BY <1>0, <2>2, <2>3, NewVersionEffect
  <2>5. object = {<<stored.uid, stored.spec>>} /\ object' = {<<stored.uid, s>>}
    BY <2>3, <2>4 DEF object
  <2>6. object' = object => open' = open
    <3>1. object' = object => <<stored.uid, s>> = <<stored.uid, stored.spec>>
      BY Zenon, <2>5
    <3>2. <<stored.uid, s>> = <<stored.uid, stored.spec>> => s = stored.spec
      OBVIOUS
    <3> QED
      BY <2>3, <2>4, <3>1, <3>2 DEF open
  <2>7. object # {} /\ object' # {} /\ open' \in BOOLEAN
    BY <2>5 DEF open
  <2> QED
    BY <1>3, <1>5, <2>4, <2>6, <2>7 DEF Report!Next, Report!Submit
<1>6. CASE DeleteServer /\ stored' # stored
  <2>1. stored'.uid = 0 /\ stored'.phase = "none"
    BY <1>0, <1>6, NoServerType, PutFields DEF DeleteServer
  <2>2. object # {} /\ object' = {} /\ ~open'
    BY <1>6, <2>1 DEF DeleteServer, object, open
  <2> QED
    BY <1>3, <1>6, <2>1, <2>2 DEF Report!Next, Report!Delete
<1>7. CASE SetUnknown /\ stored' # stored
  <2> DEFINE e == [stored EXCEPT !.phase = "Unknown"]
  <2>1. e \in Server /\ e.uid = stored.uid /\ e.spec = stored.spec /\ e.phase = "Unknown"
    BY <1>0 DEF Server, Phases
  <2>2. Put(e) /\ stored.uid # 0 /\ remote' = remote
    BY <1>7 DEF SetUnknown
  <2> HIDE DEF e
  <2>3. stored'.uid = stored.uid /\ stored'.spec = stored.spec /\ stored'.phase = "Unknown"
    BY <1>0, <1>7, <2>1, <2>2, PutFields
  <2>4. object # {} /\ object' = object /\ open' = open
    BY <2>2, <2>3 DEF object, open
  <2> QED
    BY <1>3, <1>7, <2>3, <2>4 DEF Report!Next, Report!Ask
<1>8. CASE ChangeRemote
  <2>1. stored' = stored /\ object' = object
    BY <1>8 DEF ChangeRemote, stored, object
  <2>2. grounds' = grounds \union Report!Finding(open')
    BY <1>1, <2>1 DEF Remember
  <2>3. CASE open' = open
    <3>1. grounds' = grounds
      BY <2>2, <2>3 DEF Honest
    <3> QED
      BY <2>1, <2>3, <3>1 DEF Report!vars
  <2>4. CASE open' # open
    <3>1. stored.uid # 0 /\ open' = ~open
      BY <2>1, <2>4 DEF open
    <3>2. object # {}
      BY <3>1 DEF object
    <3> QED
      BY <2>1, <2>2, <3>1, <3>2 DEF Report!Next, Report!Turn
  <2> QED
    BY <2>3, <2>4
<1> QED
  BY <1>2, <1>4, <1>5, <1>6, <1>7, <1>8
     DEF Others, CreateServer, EditServer, DeleteServer, SetUnknown

(* The controller, with its lagging cache, its queue, its retries and the  *)
(* requests of dead processes, implements the honest report: for any       *)
(* number of edits, failures and crashes, a verdict in the status was true *)
(* at some moment since the version it was written on top of               *)
(* (frpserver_controller.go:68-93).                                        *)
THEOREM ReportIsHonest == ReportSpec => ReportsHonestly
<1>1. ReportInit => Init /\ Honest /\ Report!Init
  <2> SUFFICES ASSUME ReportInit PROVE Honest /\ Report!Init
    BY DEF ReportInit
  <2>1. stored = NoServer /\ stored.uid = 0 /\ stored.phase = "none"
    BY NoServerType, LogSingle DEF ReportInit, Init, stored
  <2>2. object = {} /\ open = FALSE
    BY <2>1 DEF object, open
  <2> QED
    BY <2>1, <2>2 DEF ReportInit, Init, Honest, InFlight, Report!Init
<1>2. [ReportNext]_reportVars => [Next]_vars
  BY DEF ReportNext, reportVars
<1>3. IInv /\ IInv' /\ Honest /\ [ReportNext]_reportVars
        => Honest' /\ [Report!Next]_(Report!vars)
  <2> SUFFICES ASSUME IInv, IInv', Honest, [ReportNext]_reportVars
               PROVE  Honest' /\ [Report!Next]_(Report!vars)
    OBVIOUS
  <2>1. CASE ReportNext
    <3>1. Next /\ Remember
      BY <2>1 DEF ReportNext
    <3> QED
      BY <3>1, HonestStep, ReconcileReport, ManagerReport, OthersReport DEF Next
  <2>2. CASE UNCHANGED reportVars
    <3>1. /\ UNCHANGED <<log, remote, pc, obj, verdict, late, grounds>>
      BY <2>2 DEF reportVars, vars
    <3> QED
      BY <3>1 DEF Honest, Grounded, InFlight, Pending, Outcome, stored, object, open,
                  Report!vars, Report!Finding
  <2> QED
    BY <2>1, <2>2
<1>4. ReportSpec => Spec
  BY <1>1, <1>2, PTL DEF ReportSpec, Spec
<1> QED
  BY <1>1, <1>3, <1>4, Invariance, PTL DEF ReportSpec, ReportsHonestly, Report!Spec

=============================================================================
