# A TLA+ model of frp-provisioner

frp-provisioner is a Kubernetes operator. It exposes Services of type
LoadBalancer through frp servers: for every such Service it keeps a pod that
runs an frp client, and for every `FrpServer` object it records whether the
server it describes lets a client in. This directory models the operator in
TLA+, checks the models with TLC on small instances, and proves their central
properties with TLAPS for all instances.

## 1. The system

| Part | Source | What it does | Model |
|---|---|---|---|
| Service reconciler | `pkg/controller/service_controller.go` | lists, claims, deletes and creates the pods of a Service; puts on and takes off a finalizer | `ServiceController`, seen from outside `FinalizerProtocol` |
| Reference manager | `pkg/utils/controller/refmanager.go` | decides whether a pod is claimed, adopted, ignored or released | `ClaimRules`, actions `CanAdoptOnce`, `Adopt`, `Claimed` of `ServiceController` |
| FrpServer reconciler | `pkg/controller/frpserver_controller.go` | probes the server, writes the verdict into `status.phase` | `FrpServerController`, seen from outside `HealthReport` |
| Probe | `pkg/utils/frpclient/validate.go` | one login to the frp server, with certificate files from a secret | `ServerProbe`, contract `ProbeContract` |
| Admission webhook | `pkg/controller/frpserver_validator.go` | defaults and validates FrpServer objects, ends in a probe | `FrpServerWebhook` |
| Task manager | `pkg/safe/groutine.go` | starts goroutines and waits for them on Close | `TaskManager` |
| Manager command | `cmd/manager/app`, `pkg/config`, `pkg/server`, `pkg/log` | builds the configuration from defaults, flags and file, sets everything up | `ManagerStartup` |
| Agent | `cmd/agent`, `pkg/server/agent.go` | startup like the manager's, over the log options; the server logs a line and returns | `ManagerStartup` |
| Rest | `pkg/metrics`, `pkg/env`, `pkg/version`, `pkg/safe/nocopy.go`, generated deep copies, manifests | tables, helpers, generated code, data | not modelled |

How they interact. The manager process runs one worker per reconciler and one
goroutine per webhook request. The reconcilers read from informer caches that
lag behind the API server and write to the API server, which refuses an update
of an outdated version. Events of the informers put the object's key into a
queue that keeps a key once; an error returned by `Reconcile` puts it there
again after a delay. The webhook and the FrpServer reconciler call the same
probe at the same time, and share the directory for temporary files.

## 2. The modules

### ServiceController

One Service name with everything around it. `svcLog` and `podLog` are the
versions of the Service and of all pods from the cached one (first) to the
stored one (last): a write appends, a delivery drops the first. The two caches
lag independently, each by at most `MaxLag`. `queued` and `backoff` say where
the key is, `pc` and the locals where the worker is.

Each action is one call of `Reconcile`: the read of the Service (`GetService`),
of the pods (`ListPods`), the check before adoption (`CanAdoptOnce`), one
adoption (`Adopt`), the end of claimPods (`Claimed`), one deletion (`Delete`),
the choice of the branch (`Decide`), the two updates of the finalizer
(`RemoveFinalizer`, `AddFinalizer`), the creation (`CreatePod`) and the return
(`KeepPods`, `Return`). Every request can be lost, or carried out with the
answer lost. `RelistServices` and `RelistPods` are watches that break: the list
skips versions, and a pod that came and went leaves no trace (`Swallows`, which
spends fuel of its own). `Restart` ends the process at any point and lists
everything anew; the request under way (`InFlight`) stays behind in `late` and
reaches the API server at any later moment (`LateRequest`), or never. That is
also what a change of leadership looks like: the deployment runs one replica
with leader election, and the old leader's last request may come after the new
leader's first.

The environment edits, deletes and recreates the Service, makes pods with the
same labels, changes owners, lets pods finish, kills and removes them, and
collects garbage.

### FinalizerProtocol

What anybody who is not the controller sees of a Service: which incarnation it
is, whether it is to be exposed, whether our finalizer is on it, and whether it
is being deleted. `Guard` puts the finalizer on while the Service is to be
exposed, `LetGo` takes it off while it is not; users do the rest, and a deleted
Service stays until the finalizers are gone. `ImplementsProtocol` in
`ServiceController` maps the stored Service to it: the decisions are taken on a
cached version, and must still be right for the stored one.

### FrpServerController

The same construction for one FrpServer and its cache, relists and late updates
of dead processes included. `remote` is the set of specifications the server
lets in at the moment. The verdict of a failed probe carries one of `Errors`,
the texts that go into `status.reason`: an update that changes neither phase nor
text is no new version and no event. A failed `Get` is an action of its own
(`GetServerFails`) because the code returns nil there.

The webhook has probed a specification before it is stored, but some time
before: `CreateServer` and `EditServer` may store any specification, also one
that the server has ceased to let in. An edit may leave the specification as it
is and change a label; it is a new version and an event all the same. The
reconciler has one worker for all FrpServers (`MaxConcurrentReconciles` is left
at 1): in `OtherServer` it takes the key of another one and comes back. `Probe`
and `OtherServer` need not end, as a probe has waits without a limit.

### HealthReport and FrpServerReport

`HealthReport` is what the users of an FrpServer see: the object, its phase, and
whether the frp server would let its specification in. It has no cache, queue or
process. `Report` writes a verdict for which there have been `grounds` since the
object was last written: Healthy if its specification was let in at some moment,
Unhealthy if it was turned away or a login failed on the way (`Trouble`).

`FrpServerReport` is `FrpServerController` with `grounds` as a history variable.
`Remember` is conjoined to every step and constrains nothing but `grounds'`, so
that the behaviours of the controller are all there. `ReportsHonestly` maps it to
`HealthReport`.

### ServerProbe and ProbeContract

Any number of concurrent calls of `ValidateFrpServerConfig`. A call has a
program counter, the secret it read, the file names in its configuration, its
deferred calls and its connections; the directory is shared. The secret is
rotated and the peers fall silent at any time. `Crash` ends the process between
any two steps: connections close, deferred calls do not run, and the names of
its files go into `left`, where `os.CreateTemp` cannot take them (`FreeName`) and
where they stay unless a call removes one (`Unwind`). The frp client library is
external: `Dial` and `Login` say which of its waits are limited (the dial, a
multiplexed session) and which are not (the websocket handshake, the CONNECT
exchange with an HTTP proxy, the OIDC request, the TLS handshake of a plain
connection). `Hangs` are those four.

`ProbeContract` is what a caller relies on: nil only if the server let this
call in between start and return, and nothing held afterwards. Only its `Crash`
adds to `litter`, and nothing takes from it.
`ImplementsContract` maps the probe to it.

### FrpServerWebhook

One request at a time passes mutation, validation and the write; a deletion may
come between. A specification is a record of the fields the rules read. Whether
the probe succeeds is up to the network: `MaySucceed` is what has to hold if it
does. The frp client fills an empty proxy from `http_proxy` of the process
(`env`), which may be another one after a `Restart`: what is stored is what was
probed up to that.

### TaskManager

The mutex, the WaitGroup and the context, one action per operation on them.
`Nesting` are the tasks that call `GoCtx` themselves. A task that panics runs its
deferred `Done` first (`Panic`), so that a Close may still return; then the
recover function given by `Go` panics again and ends the process (`Repanic`).

### ManagerStartup

`RunE` of both commands as a sequence of steps, each of which may fail, over
every command line and every configuration file. An option's value is the
source it came from, or, where validation tells them apart, what is wrong with
it: nothing in it (`zero`), an address without a port, a template without a
container (`bare`) or one that does not parse (`garbage`). The agent takes the same steps over the log options alone
and stops, in a strict parse, at the manager's.

## 3. The runs

| Run | Checks | Result |
|---|---|---|
| `service_pods` | `TypeOK`, `RightWhenInSync`, `StaleWorkIsRedone`, `ReapsOnlyInactive`, `ForeignOwnerKept`: two pods, lag 2, two edits, two interventions on pods, one swallowed wake-up | holds, 1.8 million states |
| `service_faults` | `GuardedCreate`, `RestsOnlyConverged`, `OnlyFinalizerWritten`, `ServiceWritesPaidFor`, `ImplementsProtocol`: two pods, lag 2, a foreign finalizer, one fault, one crash with a late request | holds, 763 thousand |
| `service_live` | `ExposedEventually`, `WithdrawnEventually`, `DeletionCompletes`, `PodsFollowService`: three edits, one fault, one crash | holds, 233 thousand |
| `frpserver` | `TypeOK`, `RestsOnlyHealthy`, `WritesPaidFor`, `VerdictFitsSpec`, `ReportsHonestly`, `HealthyEventually`, `UnhealthyEventually`: two specifications, two error texts, one failed read, one fault, one crash | holds, 462 thousand |
| `frpserver_get` | `SynchronizesUntilHealthy` | violated, see 6 |
| `probe` | `TypeOK`, `FilesInPlace`, `ImplementsContract`, `Returns`: two calls, three names, any number of crashes | holds, 182 thousand |
| `webhook_admission` | `TypeOK`, `StoredIsUpdatable`, `StoredIsSound`, `StoredIsProbed` | holds, 133 thousand |
| `webhook_quic` | `NoPanic` | violated |
| `task_manager` | `TypeOK`, `CloseWaits`, `NoAddDuringWait`, `OnlyNestingBlocks`, `CloseReturns` | holds, 2840 |
| `task_nested` | `AllExit` | violated |
| `startup_options` | `TypeOK`, `FlagWins`, `StartsOnGoodInput` | holds, 845 thousand |
| `startup_required` | `RunsWithRequired` | violated |

Bounds. `Fuel` says how often each disturbance may
happen, `any` how many there may be in all. Two edits are enough
for create-then-change and create-then-delete, three for a recreation under the
same name. Two pods are enough for a duplicate and for a pod of ours next to
one of another controller; the liveness run has one, so that a new pod also
waits for the old one's removal. A lag of two lets a cache miss a change and its
reversal. `service_pods` has no crash: that the adoption of a dead process
respects another controller's claim is shown by the proof of `ForeignPodsAreSafe`
alone. Two probes with three names let one call take a name that the other
has just released; the secret is complete or lacks its key. A crash can leave
up to all three names behind, and with none free a call fails. The
two specifications of the probe's run have all four unlimited waits between
them; the safety properties are proved for every combination. In the webhook every specification that differs from a good one
in at most two fields meets every rule, alone and with every other. In the
startup one option of each kind (with and without flag, required, in the
sampling block, the template, the address) stands for all of its kind, since
the options are treated independently. Tasks that start tasks are in
`task_nested` and in the proofs; with them `CloseReturns` is false.

Deadlock is not checked where the system may rest: a converged controller, or a
task manager that nobody uses. It is checked for the probe, the webhook and the
startup (where an ended run stutters explicitly).

Fairness. In the Service model `Reconcile`, the deliveries and the delays are
weakly fair: the controller's worker loops for as long as the process runs, a
watch delivers and a rate limiter's timer fires. In the FrpServer model the
worker is not: a probe, of this server or of another, may wait for ever for a
peer that says nothing. Only the calls of the API server return, and a queued
key gets its turn if the worker is free again and again (strong fairness of the
read: the work queue is first in, first out). `HealthyEventually` and
`UnhealthyEventually` have the exception that this leaves: the phase becomes
what the server deserves, or the worker hangs (`Hangs`) for ever. `Returns` of
the probe says where and for how long it can. Kubelets remove terminating pods, other
controllers give up their finalizers, the garbage collector collects, and a late
request arrives or is lost in the end. Relists are not fair: nothing depends on
a watch breaking. Users,
faults and crashes are not fair. `Resync` is fair in the FrpServer model only,
where nothing else notices that a server has changed; the Service properties
hold without it. In the probe `Step` is strongly fair because a peer may
alternate between silent and not: a call that can go on again and again does.
In the task manager the mutex is strongly fair (Go's mutex has a starvation
mode) and tasks return once their context is done, which is what the code
expects of them.

## 4. What is proved

Eight modules hold theorems: `HistoryLemmas`, `ServiceControllerProofs`,
`ServicePodProofs`, `FrpServerControllerProofs`, `ServerProbeProofs`,
`FrpServerWebhookProofs`, `TaskManagerProofs` and `ManagerStartupProofs`. The
only assumptions are the named ones in the component modules (types and
disjointness of the constants, and that a Service has finitely many foreign
finalizers); sets, lags and fuel are arbitrary.

- **Service reconciler.** `TypeCorrect`. `FinalizerBeforePod` rests on
  `GuardInv`: versions grow along `svcLog`, an instance with the stored version
  is the stored object, and past `Decide` a pod is only created with the
  finalizer stored. `LateInv` says the same of the requests that outlive their
  process, where it is harder: the process that could tell is gone, and only the
  version in the request protects the stored object. `NoLostUpdate` follows, as
  an update that goes through works on the stored object.
  `FinalizerFollowsProtocol` is the refinement: `ProtocolWrite` shows that an
  accepted update is a `Guard` or a `LetGo` because the object it was decided on
  is the stored one, and every other action is a user's step or a stutter. `NoLostWakeUp` and `NoMistakeInSync` need the
  stronger `IInv`: while the caches are current and nothing is queued, the
  locals of `Reconcile` agree with the stored state (`claimed` are exactly the
  running pods of our own, and so on), and an idle worker with nothing delayed
  has converged. `QuietKeepsOwned` is what makes it inductive: a change that
  wakes nobody changes nothing that belongs to the Service. `Budget` ties
  `NoGap`, the condition that no list has swallowed a wake-up, to the fuel.
- **Pods of a Service.** `PodInv` is about the history of each pod: once it is
  inactive it never runs again under the same entry, its versions follow each
  other, and whoever is about to adopt it, alive or late, holds a version of it
  without a controller. `ReapsTheDead` follows, since a list that found a pod
  inactive cannot be overtaken by its return, and `ForeignPodsAreSafe`, since an
  adoption is refused unless the pod is still the one that was read.
- **Writes of a Service.** The reconciler watches the Service it updates, and
  updates it on every pass of the clean branch. `NoWriteLoop` shows that this
  ends, by an account: `Owed` is the number of writes the stored Service still
  gives cause for, one of ours unless the finalizer is as it should be and one
  for each foreign finalizer. `PaidInv` says that versions plus `Owed` stay
  within `Price` per edit. Every write of ours pays one off
  (`ReconcilerFinalizes`, the lemma that also carries `NoLostUpdate`: the update
  that goes through is decided on the stored object), an update that changes
  nothing is no version, and only a user's step makes new debts (`UserOwes`).
- **Stale work.** `StaleWorkIsRedone` is inductive together with `GuardInv` and
  the types: `ReconcileReads` says what a step of Reconcile does to what it has
  read, `WritesKeepCaches` that its writes do not reach the caches by themselves,
  and `QuietShowing` that a delivery that wakes nobody shows no new running pod
  of the Service. `StaleWorkIsNotTheLast` follows without any condition on lags,
  gaps or faults: it is what remains of `RightWhenInSync` when the caches are
  not current.
- **FrpServer reconciler.** `VerdictIsCurrent` from `Versions` and `Current`.
  `NoLostWakeUp` carries `Awake`: unless a read has failed, an idle worker
  without a wake-up under way has found the stored object healthy. After a
  failed read that is false (run `frpserver_get`). `WritesAreBounded` is an
  argument by accounts. `Debt` is the number of writes an object still gets if
  nothing changes any more (two when Unknown, one without a verdict or with a
  wrong one). `Covered` says that versions plus debt stay within what the
  disturbances have paid, also if any of the updates on its way, of the living
  process or of a dead one, arrives first; each update that does arrive makes
  the others too late. A text that differs from the last one pays for its write:
  the theorem says that nothing but news is written, not that there is no end of
  news (see 6). `ReportIsHonest` is the refinement of `HealthReport`.
  `Grounded` says of one update that there are grounds for its verdict if the
  object is still the version it was decided on; `Honest` says so of the one in
  hand and of all late ones. A login leaves grounds for what it found
  (`ProbeGrounded`), and a write that goes through has found the version it was
  decided on, so that grounds have not been cleared since.
- **Probe.** `IInv` says for each call that the files it owns are covered by
  its deferred calls, that its configuration names only files of its own, and
  how far it has come; `Abandoned`, that names left by dead processes are nobody's
  file now. `OwnFiles` and `Refinement` follow, the latter with the mapping in
  `ServerProbe`: a deferred removal is of a file of its own call, so that it
  cannot be of an abandoned one, and a crash leaves exactly what the calls held.
- **Webhook.** The defaults are idempotent, the two sets of rules agree on
  defaulted specifications, and the client's own defaults, in whatever
  environment, have nothing left to fill in but an empty proxy; `IInv` carries this from the request to the stored object. `Updatable`,
  `Sound` and `Probed` follow for any set of specifications.
- **Task manager.** The counter equals the number of running tasks plus the one
  being started, and only the holder of the mutex is inside. `CloseIsComplete`
  and `WaitGroupRule` follow for any number of goroutines. `CloseIsNotHeldUp`
  needs `FlowInv` besides: a Close waits only with the context cancelled, a
  running task is idle or, if it nests, in `GoCtx`, and there is a task left for
  every `GoCtx` under way. It is the safety
  part of `CloseReturns`: nothing but nesting makes a Close wait in vain.
- **Startup.** `Layers` says what each layer has contributed at each step and
  `Checked` and `Passed` what the steps behind the current one have established
  of the configuration, and of the command line and the file as they were given. `Precedence` and `GoodInput` follow
  for any sets of options and both commands.

## 5. What is only model-checked

Liveness (both pairs of `...Eventually`, `DeletionCompletes`, `PodsFollowService`,
`Returns`, `CloseReturns`): it is outside what the prover handles. Every safety
property that holds in a run is proved. `NoPanic`, `AllExit`,
`RunsWithRequired` and `SynchronizesUntilHealthy` are false.

## 6. Where code and documents disagree

Each of these has a run with a counterexample; `PROJECT.json` quotes the lines.

1. A task that starts a task while `Close` waits, and `Close`, wait for each
   other (`task_nested`).
2. A failed `Get` of an FrpServer is forgotten (`frpserver_get`).
3. Protocol quic without a QUIC block panics in `Default` (`webhook_quic`).
4. Errors about required options are overwritten (`startup_required`).

Observed while modelling and kept in the models as the code has it, without a
run of their own:

- the webhook's port is not taken from `webhookBindAddress`, because the test
  for an empty port is inverted (`server.go:62`, action `WebhookAddress`);
- the finalizer is removed although the deletion of a pod failed
  (`service_controller.go:144-156`, action `RemoveFinalizer`); the pod is left
  to the retry or to the garbage collector;
- new FrpServers have the empty phase and are probed at once, so that they are
  never Pending (`frpserver_controller.go:63`, action `GetServer`);
- `dialServerTimeout` does not cover the websocket handshake nor the exchange
  with an HTTP proxy (operator `Dial`); with one worker for all, a single FrpServer
  whose peer falls silent there keeps the phases of all others from being
  brought up to date (properties `HealthyEventually`, `UnhealthyEventually`);
- the text of a probe's error goes into the status. A text with something in it
  that changes from call to call (a local port, the name of a temporary file)
  makes every failed probe a new version, whose event queues the next probe
  without the delay of the rate limiter (`frpserver_controller.go:80`);
  `WritesPaidFor` bounds the writes per text and does not exclude this;
- not-found errors are wrapped with `%v` in the reference manager, so that
  `IsNotFound` (`refmanager.go:208,231`) never matches and such an error ends
  `Reconcile`;
- inactive pods are deleted by label whoever controls them;
- `log: null` or `manager: null` in the file panics at the second parse, and an
  explicit `--help=false` fails it;
- `ValidateUpdate` probes also when only metadata changes, so that an object
  whose server is down cannot be relabelled.

## 7. What is not modelled

- `scheduleServer` and `getFrpServers` (`service_controller.go:179-214`) and
  the field indexes: nothing calls or reads them.
- Release in the reference manager as an action: `claimPods` filters on the
  labels `getOwnedPods` has listed by, so that the case cannot arise. It is in
  the decision table of `ClaimRules`.
- A standby process whose caches are older than the stored state when it takes
  over: a new leader starts from a list here. The late requests of the old
  leader are modelled; `GuardedCreate` speaks of the process that holds the
  lease only, since a late creation may arrive after the finalizer is gone. The
  event of such a pod leads to its eviction, or the garbage collector takes it.
- What happens after a swallowed wake-up until the resync ten hours later: the
  properties about rest and current caches are stated for `NoGap`. The case is
  real (a pod comes and loses its controller reference between two lists) and
  rare.
- The contents of a pod beyond its labels, owner and phase, and the text of the
  logs.
- A clean-up of what killed processes leave in the temporary directory: the code
  has none.
- Metrics, version, environment and copy-guard helpers, entry points, generated
  code and manifests: no state that another part depends on.

## 8. What could come next

1. Composition of `FrpServerWebhook` and `FrpServerController` over one object,
   with the probe's contract in the place of the probe. They meet in the stored
   object alone, and each has its users edit that object freely, so that no
   property above depends on it.
2. Fairness in `FinalizerProtocol`, with the liveness of the deletion as a
   consequence of the refinement.
3. A standby with caches of its own.
