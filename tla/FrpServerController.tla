------------------------ MODULE FrpServerController ------------------------
(***************************************************************************)
(* The reconciler of pkg/controller/frpserver_controller.go for one        *)
(* FrpServer name: it logs in to the frp server that the object describes  *)
(* and records the outcome in the status.  The login itself is module      *)
(* ServerProbe; here it is one step.  The object is stored by the API      *)
(* server, read from a cache that lags, written by users through the       *)
(* admission webhook, and its status by this controller.                   *)
(***************************************************************************)
EXTENDS Naturals, Sequences

CONSTANTS
    Specs,    \* the configurations users write into spec
    Errors,   \* texts of the errors a probe may return
    MaxLag,   \* events the informer may be behind the API server
    Fuel      \* how often each disturbance may happen

Disturbances == {"edit", "remote", "get", "fault", "text", "crash", "any"}
Phases == {"none", "Unknown", "Pending", "Healthy", "Unhealthy"}
Reasons == {"none", "healthy"} \union Errors

ASSUME FrpServerAssumption ==
    /\ Specs # {} /\ Errors # {} /\ Errors \intersect {"none", "healthy"} = {}
    /\ MaxLag \in Nat \ {0} /\ Fuel \in [Disturbances -> Nat]

VARIABLES
    log,      \* history of the object, from the cached to the stored version
    remote,   \* the configurations the frp server lets in at the moment
    queued,   \* the key is in the work queue
    backoff,  \* the key waits in the rate limiter
    pc,       \* the call the worker makes next, or "other": it is away
    obj,      \* the FrpServer this Reconcile works on
    verdict,  \* the reason it has for the status
    late,     \* status updates of dead processes, still on their way
    fuel

vars == <<log, remote, queued, backoff, pc, obj, verdict, late, fuel>>

-----------------------------------------------------------------------------
(* The API server.  uid 0 is "no such object", "none" the empty phase and  *)
(* the empty reason.                                                       *)

Server == [uid : Nat, rv : Nat, spec : Specs, phase : Phases, reason : Reasons]
Fresh(uid, s) == [uid |-> uid, rv |-> 0, spec |-> s, phase |-> "none", reason |-> "none"]
NoServer == Fresh(0, CHOOSE s \in Specs : TRUE)

(* A status update: the object as it was read, and its new status.         *)
Request == [obj : Server, phase : Phases, reason : Reasons]

stored == log[Len(log)]
cached == log[1]

(* One disturbance of its kind, and one of all.                            *)
Spend(d) ==
    /\ fuel[d] > 0 /\ fuel["any"] > 0
    /\ fuel' = [fuel EXCEPT ![d] = fuel[d] - 1, !["any"] = fuel["any"] - 1]

(* The object gets the next resourceVersion, and the watch an event.       *)
NewVersion(s) == Len(log) <= MaxLag /\ log' = Append(log, [s EXCEPT !.rv = stored.rv + 1])

(* Mutant: a write is never found to change nothing: it carries the time.  *)
PutTimed(s) == NewVersion(s)

(* A write that changes nothing is none.                                   *)
Put(s) == IF s = stored THEN UNCHANGED log ELSE NewVersion(s)

(* Mutant: the status is written whatever became of the object.            *)
StoreStatusBlindly(r) ==
    stored.uid # 0 /\ Put([stored EXCEPT !.phase = r.phase, !.reason = r.reason])

(* The status alone, if the object is still as it was read.                *)
StoreStatus(r) ==
    r.obj.rv = stored.rv /\ Put([stored EXCEPT !.phase = r.phase, !.reason = r.reason])

Lost(ok) == ~ok /\ Spend("fault")

(* r.Status().Update(ctx, &obj).                                           *)
UpdateStatus(r, ok) ==
    \/ StoreStatus(r) /\ ((ok /\ UNCHANGED fuel) \/ Lost(ok))
    \/ r.obj.rv # stored.rv /\ ~ok /\ UNCHANGED <<log, fuel>>
    \/ Lost(ok) /\ UNCHANGED log

-----------------------------------------------------------------------------
(* Reconcile.                                                              *)

Reset == pc' = "idle" /\ obj' = NoServer /\ verdict' = "none"

(* Mutant: the error of the probe is recorded and not returned.            *)
ReturnNil(ok) == Reset /\ UNCHANGED <<queued, backoff>>

Return(ok) == Reset /\ backoff' = (backoff \/ ~ok) /\ UNCHANGED queued

(* Mutant: a Pending object is left for somebody else to look at.          *)
GetServerParked ==
    /\ pc = "idle" /\ queued
    /\ queued' = FALSE
    /\ IF cached.uid = 0 \/ cached.phase = "Pending" THEN UNCHANGED <<pc, obj>>
       ELSE /\ obj' = cached
            /\ pc' = IF cached.phase = "Unknown" THEN "pend" ELSE "probe"
    /\ UNCHANGED <<log, remote, backoff, verdict, late, fuel>>

(* Mutant: an object that was Healthy once is not looked at again.         *)
GetServerTrusting ==
    /\ pc = "idle" /\ queued
    /\ queued' = FALSE
    /\ IF cached.uid = 0 \/ cached.phase = "Healthy" THEN UNCHANGED <<pc, obj>>
       ELSE /\ obj' = cached
            /\ pc' = IF cached.phase = "Unknown" THEN "pend" ELSE "probe"
    /\ UNCHANGED <<log, remote, backoff, verdict, late, fuel>>

(* r.Get from the cache, and the test for an Unknown phase.                *)
GetServer ==
    /\ pc = "idle" /\ queued
    /\ queued' = FALSE
    /\ IF cached.uid = 0 THEN UNCHANGED <<pc, obj>>
       ELSE /\ obj' = cached
            /\ pc' = IF cached.phase = "Unknown" THEN "pend" ELSE "probe"
    /\ UNCHANGED <<log, remote, backoff, verdict, late, fuel>>

(* An error of the Get is logged and nil is returned: no retry.            *)
GetServerFails ==
    /\ pc = "idle" /\ queued
    /\ Spend("get")
    /\ queued' = FALSE
    /\ UNCHANGED <<log, remote, backoff, pc, obj, verdict, late>>

(* The update under way: to Pending, with the other fields as they were    *)
(* read, or to what the probe has found.                                   *)
Pending == [obj |-> obj, phase |-> "Pending", reason |-> obj.reason]

(* Mutant: an error is noted, but the phase of a Healthy object stays.     *)
OutcomeKept ==
    [obj |-> obj, reason |-> verdict,
     phase |-> IF "healthy" \in {verdict, obj.reason} THEN "Healthy" ELSE "Unhealthy"]

Outcome ==
    [obj |-> obj, phase |-> IF verdict = "healthy" THEN "Healthy" ELSE "Unhealthy",
     reason |-> verdict]

(* Mutant: a reason in the place of the phase.                             *)
SetReason ==
    /\ pc = "pend"
    /\ \E ok \in BOOLEAN :
          UpdateStatus([Pending EXCEPT !.phase = "Initialized"], ok) /\ Return(ok)
    /\ UNCHANGED <<remote, late>>

SetPending ==
    /\ pc = "pend"
    /\ \E ok \in BOOLEAN : UpdateStatus(Pending, ok) /\ Return(ok)
    /\ UNCHANGED <<remote, late>>

(* ValidateFrpServerConfig: it can also fail for reasons of its own, and   *)
(* two failures in a row may have different texts.  It need not return:    *)
(* four of its waits have no limit (ServerProbe).                          *)
Probe ==
    /\ pc = "probe"
    /\ \/ obj.spec \in remote /\ verdict' = "healthy" /\ UNCHANGED fuel
       \/ /\ verdict' \in Errors
          /\ \/ obj.spec \notin remote /\ verdict' = obj.reason /\ UNCHANGED fuel
             \/ obj.spec \notin remote /\ obj.reason \notin Errors /\ UNCHANGED fuel
             \/ obj.spec \notin remote /\ Spend("text")
             \/ Spend("fault")
    /\ pc' = "write"
    /\ UNCHANGED <<log, remote, queued, backoff, obj, late>>

(* The verdict goes into the status; a failed probe is an error as well.   *)
WriteVerdict ==
    /\ pc = "write"
    /\ \E ok \in BOOLEAN :
          UpdateStatus(Outcome, ok) /\ Return(ok /\ verdict = "healthy")
    /\ UNCHANGED <<remote, late>>

Reconcile == GetServer \/ GetServerFails \/ SetPending \/ Probe \/ WriteVerdict

-----------------------------------------------------------------------------
(* What SetupWithManager connects, and the manager around it.              *)

worker == <<pc, obj, verdict, late>>

Deliver ==
    /\ Len(log) > 1
    /\ log' = Tail(log) /\ queued' = TRUE
    /\ UNCHANGED <<remote, backoff, worker, fuel>>

(* The watch breaks and the informer lists again: it sees where the object *)
(* has got to, and no event for one that came and went meanwhile.          *)
Relist ==
    /\ Len(log) > 1
    /\ log' = <<stored>>
    /\ queued' = (queued \/ cached.uid # 0 \/ stored.uid # 0)
    /\ UNCHANGED <<remote, backoff, worker, fuel>>

BackoffExpires ==
    /\ backoff
    /\ backoff' = FALSE /\ queued' = TRUE
    /\ UNCHANGED <<log, remote, worker, fuel>>

(* There is one worker for all FrpServers: it takes another one's key, and *)
(* comes back if the probe of that one returns.                            *)
OtherServer ==
    /\ \/ pc = "idle" /\ pc' = "other"
       \/ pc = "other" /\ pc' = "idle"
    /\ UNCHANGED <<log, remote, queued, backoff, obj, verdict, late, fuel>>

(* The informer's periodic resync, every ten hours.                        *)
Resync ==
    /\ cached.uid # 0 /\ ~queued
    /\ queued' = TRUE
    /\ UNCHANGED <<log, remote, backoff, worker, fuel>>

(* A process that is killed, or has lost the lease and exits at once, may  *)
(* leave a request behind.                                                 *)
InFlight == (IF pc = "pend" THEN {Pending} ELSE {}) \union
            (IF pc = "write" THEN {Outcome} ELSE {})

Restart ==
    /\ Spend("crash")
    /\ Reset
    /\ log' = <<stored>> /\ queued' = (stored.uid # 0) /\ backoff' = FALSE
    /\ late' = late \union InFlight
    /\ UNCHANGED remote

(* The request of a dead process reaches the API server, or is lost.       *)
LateUpdate ==
    /\ \E r \in late :
          late' = late \ {r} /\ (StoreStatus(r) \/ UNCHANGED log)
    /\ UNCHANGED <<remote, queued, backoff, pc, obj, verdict, fuel>>

Manager ==
    \/ Deliver \/ Relist \/ BackoffExpires \/ OtherServer \/ Resync
    \/ Restart \/ LateUpdate

-----------------------------------------------------------------------------
(* Users, through the webhook, and the frp server.                         *)

manager == <<queued, backoff, worker>>

(* The validating webhook makes the same probe before it admits a spec.    *)
(* By the time of the write, what it has found may be out of date: any     *)
(* configuration can get into the object (module FrpServerWebhook).        *)
CreateServer ==
    /\ stored.uid = 0 /\ Spend("edit")
    /\ \E s \in Specs : NewVersion(Fresh(stored.rv + 1, s))
    /\ UNCHANGED <<remote, manager>>

(* The spec changes, or something else of the object: a label, say.        *)
EditServer ==
    /\ stored.uid # 0 /\ Spend("edit")
    /\ \E s \in Specs : NewVersion([stored EXCEPT !.spec = s])
    /\ UNCHANGED <<remote, manager>>

DeleteServer ==
    /\ stored.uid # 0 /\ Spend("edit")
    /\ Put(NoServer)
    /\ UNCHANGED <<remote, manager>>

(* Somebody with access to the status subresource asks for a new check.    *)
SetUnknown ==
    /\ stored.uid # 0 /\ Spend("edit")
    /\ Put([stored EXCEPT !.phase = "Unknown"])
    /\ UNCHANGED <<remote, manager>>

ChangeRemote ==
    /\ Spend("remote")
    /\ remote' \in SUBSET Specs \ {remote}
    /\ UNCHANGED <<log, manager>>

Others == CreateServer \/ EditServer \/ DeleteServer \/ SetUnknown \/ ChangeRemote

-----------------------------------------------------------------------------
Init ==
    /\ log = <<NoServer>> /\ remote = Specs
    /\ queued = FALSE /\ backoff = FALSE
    /\ pc = "idle" /\ obj = NoServer /\ verdict = "none" /\ late = {}
    /\ fuel = Fuel

Next == Reconcile \/ Manager \/ Others

Spec == Init /\ [][Next]_vars

(* The API server answers, watches deliver, delays end and resyncs come    *)
(* round.  The work queue is first in, first out: a key that waits gets    *)
(* its turn if the worker is free again and again.  A probe, of this       *)
(* server or of another, may wait for ever.                                *)
Fairness ==
    /\ SF_vars(GetServer \/ GetServerFails) /\ WF_vars(SetPending) /\ WF_vars(WriteVerdict)
    /\ WF_vars(Deliver) /\ WF_vars(BackoffExpires) /\ WF_vars(Resync)

FairSpec == Spec /\ Fairness

-----------------------------------------------------------------------------
(* Properties.                                                             *)

(* Every variable has its type.                                            *)
TypeOK ==
    /\ log \in Seq(Server) /\ log # <<>>
    /\ remote \in SUBSET Specs
    /\ queued \in BOOLEAN /\ backoff \in BOOLEAN
    /\ pc \in {"idle", "other", "pend", "probe", "write"} /\ obj \in Server
    /\ verdict \in Reasons /\ late \in SUBSET Request
    /\ fuel \in [Disturbances -> Nat]

(* t carries a verdict that s does not.                                    *)
Recorded(s, t) ==
    t.phase \in {"Healthy", "Unhealthy"} /\ (t.phase # s.phase \/ t.reason # s.reason)

(* A verdict is recorded only on the object it was reached for: same       *)
(* incarnation, same spec, no status written in between.  The probe takes  *)
(* seconds, during which users edit, delete and recreate the object, and   *)
(* the process may die and leave the update behind                         *)
(* (frpserver_controller.go:68-93).                                        *)
VerdictFitsSpec ==
    [][Recorded(stored, stored') =>
       (pc = "write" /\ stored = obj) \/ \E r \in late : stored = r.obj]_vars

(* The worker is not with this object.                                     *)
Free == pc \in {"idle", "other"}

Settled == Free /\ ~queued /\ ~backoff /\ Len(log) = 1

NoGetFailed == fuel["get"] = Fuel["get"]

(* Unless a read of the object has failed, the controller rests only on a  *)
(* server it has found healthy: a failed probe, a conflict, a lost answer, *)
(* a crash or the detour over Pending each leave an event or a delayed key *)
(* behind (frpserver_controller.go:63-93).                                 *)
RestsOnlyHealthy ==
    Settled /\ NoGetFailed /\ stored.uid # 0 => stored.phase = "Healthy"

Spent(d) == Fuel[d] - fuel[d]

(* Every write is paid for: a user's write, a change of the frp server, a  *)
(* failure or a new error text leads to so many versions of the object and *)
(* no more.  The controller watches the object whose status it writes: a   *)
(* write that says nothing new would wake it up again, for ever and        *)
(* without the rate limiter (frpserver_controller.go:71-93, 97-101).  An   *)
(* error text that differs each time pays for its write: what this says of *)
(* a server that stays away is that nothing but a new text is written.     *)
WritesPaidFor ==
    stored.rv <= 3 * Spent("edit") + Spent("remote") + 2 * Spent("fault") + Spent("text")

(* Reconcile synchronizes "until the desired state is reached" (README.md: *)
(* 51): the controller rests only on a server it has found healthy,        *)
(* whatever failed before (frpserver_controller.go:53-60).                 *)
SynchronizesUntilHealthy == Settled /\ stored.uid # 0 => stored.phase = "Healthy"

(* The one worker waits for a probe that never returns: of this server, as *)
(* it is or as it was when it was read, or of another one.                 *)
Hangs == pc \in {"probe", "other"}

(* A server that lets the configuration in, and keeps doing so, ends up    *)
(* Healthy for good, even if reads of the object failed before, or the     *)
(* worker hangs: nothing else keeps it (frpserver_controller.go:53-101).   *)
HealthyEventually ==
    <>[](stored.uid # 0 /\ stored.spec \in remote)
       => <>[](stored.phase = "Healthy") \/ <>[]Hangs

(* A server that turns the configuration away, and keeps doing so, ends up *)
(* Unhealthy for good, or the worker hangs: only the resync can notice.    *)
UnhealthyEventually ==
    <>[](stored.uid # 0 /\ stored.spec \notin remote)
       => <>[](stored.phase = "Unhealthy") \/ <>[]Hangs

=============================================================================
