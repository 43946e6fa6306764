# A TLA+ verification of the cloudnative-supabase operator

The operator turns a `SupabaseProject` custom resource into a running Supabase:
a CloudNativePG (CNPG) database with optional backup and recovery, the core
services (Auth, Rest, Studio, Meta, API gateway) and, optionally, PowerSync.
One controller-runtime reconciler
(`src/internal/controller/supabaseproject_controller.go`, "the controller"
below) does all of it in one pass per event. It keeps no state of its own
between passes: everything it knows is in the API server, and it reads most of
that through informer caches that lag. A credential bundle the operator does not
make itself, but validates and rolls out, comes from a second program, the
credential wizard, and is used by the Envoy gateway whose filters the operator
renders. This project models the reconciler, the wizard and the gateway's
handling of requests, the API server's rules they depend on, and the other
actors (users, CNPG, the Job and Deployment controllers, the garbage collector,
the terminal) as far as the code reacts to them.

## Inventory

| Component | State | Operations | What makes it correct |
|---|---|---|---|
| Reconcile pipeline and project status (`Reconcile`, `updateProjectStatus`, `setCondition`) | `status` of the project: phase, observedGeneration, conditions, endpoints; work queue | the phases in order, each with early returns, status writes and requeues | the status never says what is not so: Ready, observedGeneration; the operator rests only when done, and gets there |
| Durable resources (`reconcileDurableMetadataProtection`, `reconcileBackup`, `reconcileRecovery`, `reconcileCNPGCluster`) | CNPG Cluster, two ObjectStores, ScheduledBackup; their labels and owner references | repair of metadata, adoption, create, update, cleanup | they outlive the project, are never somebody else's, keep their bootstrap, never shrink |
| PowerSync and CDC permissions (`reconcilePowerSync*`, `reconcileCDCPermissions`, `createOrCheckJob`) | Publication, CDC ConfigMap and Job, two Deployments, CronJob | validation, waiting, deployment, cleanup | nothing is deployed before what it needs exists; nothing is left behind |
| Implementation Secrets (`reconcileImplementationSecrets`, `createOrUpdateSecret`) | generated passwords and tokens; hash of the hook in Auth's template | create once, adopt, validate | never regenerated while a database depends on them |
| Core services (`reconcileServices`, `createOrUpdateDeployment`, `deploymentStatus`) | JWKS ConfigMap, Deployments, Services, credential hash in pod templates | create or update, read readiness | a rotation rolls every consumer, and none starts behind its template; readiness is that of the current template |
| Credential validation (`secrets.go`, `es256.go`) | none | parse and check the bundle | all five fields fit together or the bundle is refused |
| Credential wizard (`cmd/project-credentials-wizard`) | clipboard, prompts, interrupt handler | generate, copy, confirm, clear | what reaches the Secret is one bundle; no credential stays in the clipboard |
| API gateway (`envoy.go`) | keys rendered at start | six HTTP filters per request | a caller gets the role of the key it has, no more and no less |
| Watches and event mapping (`SetupWithManager`, `map*`) | none | predicates, mapping of events to projects | no relevant change is lost |
| Rendered configuration (PowerSync, init SQL, PodSpecs) | none | templates | not modelled: text |
| Manager process (`cmd/main.go`), generated code, chart, images | - | wiring | not modelled |

How they interact: the phases of one pass call one another in sequence and share
the working copy of the project; passes share the API server; everything else
interacts through watched objects, each of whose changes enqueues the project's
key. The wizard shares nothing with the operator but the credential Secret, which
it fills field by field through a person; the gateway and REST read the Secret
and the JWKS ConfigMap only when their containers start. Three things make this
hard to test:

* **Stale reads.** `r.Get` reads a cache. `updateProjectStatus` compares the
  status it holds with the *cached* project to decide whether to write at all,
  and writes under the resource version read at the start of the pass.
* **Interleavings.** A spec edit, a rotation, a deletion of the project or a
  change of a watched object may come between any two calls of a pass.
* **Partial passes.** Any call may fail and the operator may stop anywhere; the
  next pass starts from whatever was stored. A rotation is partial for as long as
  it takes a person to paste five fields.

`PROJECT.json` lists the hazards at their lines with the properties that would
catch them.

## Modules

| Module | Models | Composes |
|---|---|---|
| `ProjectReconcile` | the phase pipeline and the status | instantiates `StatusContract` |
| `StatusContract` | what a client watching the project may rely on | - |
| `DurableResources` | phases 0, 2.5 and 3 one API call at a time | - |
| `PowerSync` | phase 6 one resource at a time | - |
| `ImplementationSecrets` | phase 1 after the validation, one API call at a time | - |
| `ServiceRollout` | the way of a bundle to the pods: phases 1, 2 and 5 | - |
| `ProjectCredentials` | the bundle and its validation, as operators | - |
| `CredentialWizard` | the wizard, its interrupt handler, the terminal | extends `ProjectCredentials` |
| `ApiGateway` | the gateway's filters, as operators | extends `ProjectCredentials` |
| `CredentialRotation` | a rotation from the wizard to the clients' requests | extends `CredentialWizard` and `ApiGateway` |
| `MC...` | small instances for TLC | extend the module of the name |
| `ProjectReconcileProofs`, `DurableResourcesProofs`, `PowerSyncProofs`, `ImplementationSecretsProofs`, `ServiceRolloutProofs`, `CredentialRotationProofs` | theorems | extend the module of the name |
| `ProjectReconcileRestProofs` | the theorem about the pipeline at rest | extends `ProjectReconcileProofs` |
| `ApiGatewayProofs` | lemmas about the filters for any request | extends `ApiGateway`; used by `CredentialRotationProofs` |

The `Mutant...` definitions are plausible mistakes in the operation they stand
before; each property is known to fail when one of them takes the operation's
place.

### ProjectReconcile

`watch` is the sequence of versions of the project from the one in the informer
cache to the one in the API server; `proj` is the variable `project` of
`Reconcile`, `fresh` whether it carries the current resource version. `pc` and
`svc` say where in `Reconcile` the worker is. Credentials, Cluster, Deployments
and PowerSync are reduced to what a phase asks of them and read without lag.

| Actions | Controller |
|---|---|
| `StartReconcile` | get, phase `""` to Pending (124-139) |
| `ReconcileSecrets`, `FailReadCredentials`, `ReportSecretsReady`, `ReportSecretsFailure` | `reconcileSecrets`, `failReconcileSecrets` (321-366) |
| `ReconcileImplementationSecrets`, `FailImplementationSecrets` | 368-513 |
| `ValidateRecoveryBootstrapIntent` | 155-164 |
| `FailJWKSConfigMap` | `reconcileJWKSConfigMap` (524-534), its failure |
| `ReconcileCNPGCluster` (create, reject, update, keep), `FailCreateCluster` | `reconcileCNPGCluster` (537-625) |
| `WaitForDatabase` | 876-921 |
| `ReconcileServiceComponent`, `FailServiceComponent`, `FailCoreServices`, `CompleteServices` | `reconcileServices` and below (925-1029) |
| `ReconcilePowersync`, `CleanupPowerSync` | phase 6 as its outcomes (198-222) |
| `CompleteReconcile` | 223-234 |
| `FailApiCall`, `Restart` | any other error return; a new process |
| `DeliverProject` | the project watch with `GenerationChangedPredicate` |
| `EditSpec`, `RotateCredentials`, `DatabaseChanges`, `DeploymentChanges`, `PowerSyncChanges` | the watched objects |

`UpdateProjectStatus` is the heart: no write when the cached status equals the
wanted one, a conflict when the resource version is not current, otherwise a new
version. `Return` keeps a key that was enqueued during the pass.

### DurableResources

`obj[k]` is a resource in the API server, `seen[k]` in its informer cache; each
catches up on its own (`Deliver`). An object is its existence, instance label,
owner reference (by incarnation of the project) and the fields that decide
something: bootstrap server and location, storage size, barman plugin. One action
is one API call with the decision before it; updates are refused unless the
object read is the current one, deletes go by name, as in the API. The project
can be edited, deleted and created again at any moment (there is no finalizer),
and the garbage collector acts on owner references of a project that is gone.
`Init` is either a new project, any of whose names may be taken by foreign
resources, or (`Legacy`) a project of an older operator whose resources still
carry its owner reference. `protected` and `settled` are history variables for
the properties.

### PowerSync

Scripts, hashes and publications are determined by the list of schemas, and each
is represented by the set of schemas it is for. The Job's container reads the
ConfigMap there is when it starts (`StartJob`); the reconciler knows the Job by
its annotation. CNPG applies and finalizes publications. A Job that
is replaced (2369, foreground) stays until its pods are gone; one that the cleanup
deletes (2229, no propagation policy) stays until the garbage collector has
orphaned its pods, which are not followed any further: one that runs on could only
add to what is granted. Objects are read without lag. The API Service and
PowerSync's own ConfigMaps are part of the `DeployAPI` step: nothing waits for
them.

### ImplementationSecrets

`secret[s]` is a Secret in the API server and `cache[s]` what the operator reads;
`project`, `known` and `work` are the stored project, the cached one and the one
of the pass. A Secret is its value, whether that satisfies the Secret's contract,
and its owner by incarnation of the project. Owners decide three things in the
code, and each is modelled: `SetControllerReference` refuses another
controller's object and replaces a reference of the same kind and name; the
event of an owned object enqueues the project; the garbage collector takes what
belongs to a project that is gone. `deleted` keeps the event of a Secret that
came and went between two deliveries. `reported` is what the stored
SecretsReady=True vouches for. What a user makes by hand under one of the names
may be anything; the operator looks only into the token and the hook. The project
has a generation, which edits raise, and the watch reports the deletion of a
project before the next one of its name, so every event that is delivered passes
`GenerationChangedPredicate`.

| Actions | Controller |
|---|---|
| `ReconcileGeneratedSecrets`, `EndGeneratedSecrets` | `reconcileImplementationSecrets` (368-391) |
| `FindStorage`, `FindReplication`, `EnsureStorage`, `EnsureReplication` | `reconcilePowersyncSecrets` (435-481) |
| `FindToken`, `CreateToken`, `AdoptToken` | `reconcilePowersyncAPITokenSecret` (483-513) |
| `FindHook`, `CreateHook` | `reconcileEmailHookSecret` (393-424) |
| `ReportSecretsReady` | 348-353 |
| `BuildAuthDeployment` | 1142-1167 |

### ServiceRollout

The services are those that use credentials, all but Meta. `Contents` are what a
credential Secret may hold, and a hash is known by the contents it was made from,
as the code compares contents and nothing else: a Secret may be given any of
them, earlier ones and those of another Secret too, or be deleted, and the
reference may go back. `secret`, `ref`, `jwks` and `dep` are what the API server
has, `knownSecret` and so on what the caches have; since equal contents do not
make a cache current, `lateRef`, `lateSecrets`, `lateJwks` and `lateDeps` say
whose resource version is behind, which is what refuses an update and what is
still to be delivered. A template is the Secret it names and its hash; `rolled`
stands for the whole of `deploymentIsReady`. A pod reads its `Source` when it
starts: the Secret its template names, or the JWKS ConfigMap; a rollout of a
template that the pods already have starts none. `fresh` is a history variable:
so far every write brought contents made later for that Secret, and every switch
went to a later one.

| Actions | Controller |
|---|---|
| `ReconcileSecrets` | `reconcileSecrets`, `failReconcileSecrets` (321-366) |
| `ReconcileJWKSConfigMap` | 524-534 and `createOrUpdateConfigMap` (1336-1368) |
| `CreateOrUpdateDeployment`, `DeploymentStatus` | `reconcileServiceComponent` (982-1029), 1370-1417, 2232-2256 |
| `ReportReadiness` | 959-968, 2258-2265 and the end of `Reconcile` |
| `DeliverSecret` | `mapProjectCredentialsSecretToProjects` (2435-2449) |
| `WriteSecret`, `SwitchSecret`, `RollOut`, `LosePod` | users, the Deployment controller, the kubelet |

### CredentialRotation and its parts

A value is known by the field and the run of the generator it was made for.
`ProjectCredentials` says what the validation asks of five of them: each is made
for its field, and the tokens are of the signing key's run. `CredentialWizard`
has the main goroutine (`pc`, `at`) and the interrupt handler as two processes
on one terminal; a write sets the clipboard, fails, or is ignored, which the
wizard cannot see. The person pastes whatever the clipboard holds under the key
the wizard names, and may slip. `ApiGateway` is the composition of the listener's
filters as functions on requests. `CredentialRotation` lets the operator, the
gateway and REST pick the bundle up at any moment, and states the properties
across the three.

## Runs

| Run | Bounds | States | Shows |
|---|---|---|---|
| `pipeline` | 3 specs, 1 service, 1 edit, 1 disturbance, 1 fault, cache up to 2 versions behind | 5,906,770 | `ObservedGenerationApplied`, `NeverReadyWithBadCredentials`, `QuiescentMeansConverged` |
| `pipeline_live` | 2 specs that differ in size, 1 edit, 1 disturbance, cache up to 2 behind | 538,330 | `TypeOK`, `ImplementsStatusContract`, `EventuallyConverges`, `BadCredentialsReported` |
| `durable_lag` | 4 specs, legacy and foreign resources, lagging caches, 1 edit, 2 incarnations | 1,183,542 | `TypeOK`, `NothingToCollect`, `ForeignUntouched`, `BootstrapImmutable` |
| `durable_fresh` | 4 specs, foreign resources, current reads, 2 edits, 2 incarnations | 475,771 | `RecoverySourceRetained`, `SettledConverged` |
| `powersync` | 2 schema lists, 2 sync rules, 2 edits, 1 failure | 367,519 | `TypeOK`, `PublishedBeforePowerSync`, `RestsConverged`, `EventuallyObserved` |
| `secrets` | 1 generated Secret beside the four others, 3 values, 2 specs, 1 change by a user, any number of failures | 351,352 | `TypeOK`, `ReportedNotCollectable`, `RestsComplete`, `RestsRolled` |
| `rollout` | 1 service that reads the Secret and REST, 2 Secrets, 2 bundles made for each (one invalid), 2 writes or switches, 1 restarted pod, any number of failures | 4,831,199 | `TypeOK`, `PodsNotBehind`, `OnlyValidated`, `RestsRolled`, `RestsServed` |
| `credentials` | 2 runs of the wizard after the first bundle, 1 fault of the terminal, 1 slip, 20 requests | 2,373,236 | `TypeOK`, `AcceptedIsWhole`, `ClipboardLeftClear`, `ForwardedAsRole`, `ServedEndToEnd` |
| `endpoint_lost` | as `pipeline` without faults | violation | `RunningHasApiEndpoint` fails |
| `recovery_source_lost` | lagging caches | violation | `RecoverySourceRetained` fails with stale reads |
| `powersync_grants` | 2 edits | violation | `PermissionsBeforePowerSync` fails |
| `secrets_survive` | as `secrets` | violation | `ReportedSurvive` fails |

Why the bounds are enough for the cases in question. The pipeline needs one edit
to race a pass, two undelivered versions for the cache to miss an intermediate
write of the same pass, and one service to fail, wait or be ready: a second only
repeats it, and what is proved is proved for any number. The specs differ in
every field a phase branches on. The durable resources need two recoveries from
the same server that differ only in location (the bootstrap comparison cannot
tell them apart, only the ObjectStore can), a larger size for growing and
shrinking, and two incarnations for an owner reference to a project that is gone.
PowerSync needs two edits to go to another list of schemas and back, and two
rules documents to change under a running pass. The Secrets need one recreation
or one change by hand at a time, specs with and without each optional Secret, and
three values so that the value in the API server, in the cache and in Auth's
template can all differ. The rollout needs a service that reads the Secret and
the one that reads the ConfigMap, and two changes: there and back, be it of
contents or of the reference, a bad rotation and its repair, or a rotation and a
switch. A rotation needs two runs of the
wizard after the bundle in use, since a stale clipboard can hold a field of the
run before; the requests have keys in the header, in the query and in both, of
runs in use, retired or not yet in use, with bearers of every kind. Deadlock
checking is off because the operator at rest, with the bounds on edits and
failures used up, has nothing left to do; that it rests in the right place is
what `QuiescentMeansConverged`, `RestsConverged`, `RestsComplete`, both
`RestsRolled` and `RestsServed` say.

Fairness. `FairSpec` of `ProjectReconcile` has weak fairness of the reconciler's
steps as a whole (the work queue hands out a queued key, retries errors with a
back-off for ever, and Go code that is running goes on) and of watch delivery.
`FairSpec` of `PowerSync` has weak fairness of the reconciler and of CNPG and the
Job controller working off what they were given. Nothing is assumed of users, of
failures, of roles or of Deployments becoming ready: those are in the hypotheses
of the properties (`Healthy`, the left-hand side of `EventuallyObserved`).

### What the violations show

1. `endpoint_lost`. `waitForDatabase` rebuilds `status.endpoints` without the API
   endpoint and stores it. When the cache has not seen that write at the end of
   the pass, the final status equals the cached one, the write is skipped, and
   the project stays without its API endpoint.
2. `recovery_source_lost`. The guard that keeps the source ObjectStore reads the
   Cluster from the cache; just after its creation the guard sees none.
3. `powersync_grants`. A Job that ran another script counts for the one it is
   annotated with, so PowerSync can be deployed without its grants.
4. `secrets_survive`. A recreated project reports the role Secrets of PowerSync
   and the email hook of its predecessor as ready without adopting them; the
   garbage collector then deletes them and new passwords are generated.

More behaviours are recorded with the hazards, without a run of their own, since
no document says otherwise:

* Ready=True is not lowered by a database outage, PowerSync trouble, a rejected
  edit or a JWKS ConfigMap that cannot be written (it is *raised* only when all is
  ready, which `StatusContract` states).
* A backup that is disabled before its condition was stored stays behind.
* A token Secret that disappears between its validation and its adoption is
  created again without a token, which the validation then refuses for good.
* A credential Secret that gets earlier contents back brings the earlier hash
  back, and no rollout. In two cases a pod then keeps the wrong bundle while the
  operator rests: a pod that was started with a bad rotation before it was
  undone; and REST, when the cached JWKS ConfigMap still has the contents that
  came back, so that the write of the ConfigMap is left out and REST is rolled
  out with the JWKS in between. `PodsNotBehind` and `RestsServed` therefore have
  the condition `fresh`: without it TLC finds both in the instance of `rollout`.
  What holds in any case is `RestsRolled`: the ConfigMap and the templates are
  put right.

## Proofs

All are for every value of the constants satisfying the named assumptions (types
of the bounds and of the specs; nothing about sizes). `RequestsAssumption` says
that the requests `CredentialRotation` is asked about are HTTP requests: a route,
an `apikey` header, `apikey` parameters and an `Authorization` header, each with
any value or absent. Two theorems about the durable resources have a further
hypothesis, named below.

Every invariant that a passing run checks is also a theorem.

**ProjectReconcileProofs.** `TypeCorrect`, `BadCredentialsNeverReady`,
`ObservedIsApplied` and `Refinement` (the pipeline implements `StatusContract`)
follow from one inductive invariant. None of the properties is inductive: what
will be stored depends on the working copy, and whether the working copy may be
stored depends on `fresh`. The invariant therefore says of the working copy in
each phase what the phases before it have established (for instance: past
`cluster`, a fresh copy's spec is what the Cluster was brought to), that every
version in `watch` is a project whose claims were true when written, and that
generations only grow along it. Every copy a phase makes, except the last, is
*benign*: it claims nothing better than the one it was made from.

**ProjectReconcileRestProofs.** `ConvergedAtRest`: `QuiescentMeansConverged`. That
a pass which ends without asking for another one has found everything in order,
and that it still is if no event has come since, is one half (`SeenInv`). The
other is that the API server holds the status the pass ends with, though the
pass compares with the *cached* project, and may have started from a stale one.
Only a pass that starts with nothing on its way to the cache can write, so all
versions behind the cached one are of one such pass. If it is the present one,
`FreshPass` says step by step how its versions come from its copy: the head of
the status (observedGeneration, Ready, a phase Running) is the same in all, the
components are the same, and the last version reports the secrets and the
database as soon as the copy does. So when the final status equals the cached
one, the stored one is complete too. If the versions are of an earlier pass, the
present one is stale, has written nothing, and every status it wanted to write
was the cached one: at `WaitForDatabase` a cached version without the API
endpoint, at the end one with it. Somewhere in between the cache has turned from
one to the other, and `TurnInv` says that a complete version that regained the
endpoint is followed by nothing worse (`LateInv`). (That the stored status may
itself lack the endpoint is the violation `endpoint_lost`; here the same skipped
write is shown to lose nothing else.) The invariant was model-checked on the
instance of `pipeline` before it was proved.

**DurableResourcesProofs.** `TypeCorrect`, `NothingCollected`, `ForeignKept` and
`BootstrapKept`. The invariant adds `Original` (a resource with an owner
reference, or a foreign one, is as it was at the start, so that no cache is
behind for it) and `RepairInv` (the resources whose repair the current pass has
behind it have no owner reference). Without `Original` the repair could overlook
an owner reference because of a stale cache, and a delete by name could hit a
foreign resource; `NextObjects` shows, action by action, that a step leaves a
resource alone or turns a resource that was the project's own, or none, into the
project's own without an owner reference.

`SettledIsConverged` and `SourceRetained` are for `StaleReads = FALSE`: with a
lagging cache both properties fail, which is what `recovery_source_lost` shows
for the second. A pass has achieved what it has behind it (`Passed`), because
nobody else makes or changes these resources, and a pass over resources that are
as they should be leaves them so (`Settled`); `Fresh` says that a status is only
accepted for the project the pass read. `SourceRetained` adds what the pass has
validated about the bootstrap (`Validated`), which is where the order of phase 3's
check and the cleanup of recovery is used, and needs `Legacy = FALSE`: a project
of an older operator deleted in the middle of the owner-reference repair leaves
the recovery ObjectStore, but not the Cluster, to the garbage collector.

**PowerSyncProofs.** `TypeCorrect`, `PublishedFirst` and `RestsWhenConverged`. The invariant adds
`StatusTrue` (a current publication status means that the database publishes the
spec's schemas and no deletion is under way) and `PassHolds` (after the
publication step the publication is current and for the schemas of the pass). At
rest nothing remembers what the last pass did, so the invariant says what each
step of a pass has left behind it, for PowerSync (`Deployment`) and for its
absence (`Cleanup`: gone, but for a Job and a Publication in deletion), and that this holds from the step until an event queues the
key (`Undisturbed`).

**ImplementationSecretsProofs.** `TypeCorrect`, `ReportedKept`, `CompleteAtRest`
and `RolledAtRest`. That a reported
Secret is not collectable is not inductive: the pass reports what it dealt with
several calls earlier, from caches. Passes are for incarnations that never become
older and every write names the incarnation of its pass, so a cached Secret that
already names it proves that the stored one no longer names an earlier one
(`Owners`), and what the pass has behind it stays that way (`Secured`); a status
is accepted only while the project is the one the pass read (`Reading`). For the
states at rest, `Undisturbed` says of each Secret the pass has dealt with that it
is as it should be in the cache (`Good`: owned, and a token valid), or that the
stored one differs from the cached one in a way whose event queues the key
(`Noted`): this is where the mapping of events by owner is used, and why an owner
reference has to be written before the pass goes on.

**ServiceRolloutProofs.** `TypeCorrect`, `PodsCurrent`, `NeverInvalid`,
`RestsWhenRolled` and `ServedWhenFresh`. Two theorems are for any changes, two for
Secrets and references that do not go back. The first part of the invariant
(`Base`) compares nothing by age: a cache that is not late is the stored object
(`Current`), only validated bundles travel (`Genuine`), pods of a Deployment that
is rolled out are of its template (`Rolled`), and `Progress` and `Undisturbed` say
that, as long as no event has arrived, what the pass has read is still what the
caches have, which makes rest mean done: that is `RestsWhenRolled`. The second
part (`Ordered`) holds while `fresh` does: Secrets hold bundles of their own
(`OwnSecrets`), a cache is never ahead of what it copies and no template newer
than the JWKS, nor the JWKS newer than the bundle of the pass (`InOrder`), which
is where the order of phases 2 and 5 is used; what is anywhere was once in the
Secret it came from (`FromSecrets`), and pods are not older than their template
(`PodsOrder`). At rest the pods are then between the template's bundle and the
Secret's, which are the same.

**CredentialRotationProofs.** `TypeCorrect`, `ClipboardClear`, `AcceptedWhole`,
`ForwardedByRole` and `ServedAsPromised`, for any number of runs, faults, slips
and interrupts. `AcceptedIsWhole` speaks of
the stored fields only and is not inductive: what may be stored next depends on
the clipboard. The invariant says that a run makes its fields in order
(`InOrder`); that what is in the clipboard has not been followed by a later field
of its run (`Latest`); that an old field in the clipboard is all that was saved in
this run, since the terminal has obeyed nothing in it (`Stale`); that an old key
saved in this run has no later field of its own run beside it (`OldKey`), and the
key of this run only fields of this run or unusable ones (`NewKey`). Together they
keep `Between`: what lies between a key and a token of one run, and is usable, is
of that run. The validation ties both tokens to the key, so everything accepted
is of one run. For the clipboard, every way out that the wizard has a hand in (its
returns, and SIGINT and SIGTERM) clears or says that it could not (`Clear`), also
in the window between the handler's clear and `os.Exit`. The whole
invariant was model-checked with 3 runs, 4 faults and 1 slip before it was proved.

The two theorems about requests are for any set of requests, with any number of
`apikey` parameters. They rest on `ApiGatewayProofs`, which follows a request
through the filters: whatever the keys, the key that passes the second filter is
one the client presented, header and bearer are translated to a role token of the
same bundle, and RBAC looks at the translated one. That the keys in the gateway
need not be of one run does not matter for `ForwardedByRole`; for
`ServedAsPromised` the gateway and REST have the stored bundle, and
`AcceptedWhole`'s argument is not needed because a valid bundle's tokens fit its
key.

Only model-checked: the liveness properties `EventuallyConverges`,
`BadCredentialsReported` and `EventuallyObserved` (temporal reasoning with
fairness is out of the prover's reach), and the violations.

## Abstractions and what is not modelled

* `ProjectReconcile` reads objects other than the project without lag,
  `DurableResources` the project without lag; each is about the other's gap.
  `PowerSync` reads everything without lag.
* Conditions are reasons with a generation; messages and timestamps are left out
  (`setCondition` keeps the transition time of an unchanged status, and the
  status comparison sees no difference either way).
* `ImplementationSecrets` and `ServiceRollout` put status writes that carry no
  information for their properties together with the step they belong to; their
  interleavings are the subject of `ProjectReconcile`.
* The BackupReady and RecoveryReady conditions, which only phase 2.5 reads, are in
  `DurableResources` and not in the status of `ProjectReconcile`.
* In `ImplementationSecrets` the informer reports a deletion before the next
  project of the name. A relist that folds both into one update of an equal
  generation would be dropped by `GenerationChangedPredicate` and is left out.
* In `ServiceRollout` a cache that is behind catches up in one step. Stakater
  Reloader, for which the operator sets annotations, is not part of the
  repository and not modelled; where it runs it restarts the pods that the hash
  does not. A restarted pod is a new one, for whatever cause (`LosePod`).
* The wizard is ended by its own returns, SIGINT or SIGTERM. Any other signal
  (SIGHUP, SIGQUIT, SIGKILL) ends it without a clear.
* In `CredentialRotation` one wizard runs at a time, the secret manager's
  synchronisation with the Secret is immediate, and role tokens do not expire. A
  request's query is its `apikey` parameters; the syntax of keys and tokens is
  reduced to the field they are made for. A bearer of three segments that nobody
  signed (`Unsigned`) looks like a token to the gateway, and only REST refuses it.
  What a forwarded request has in its query is outside `ForwardedAsRole`.
  Requests are judged against the keys the gateway has at that moment, in one step.
* One project: the reconciler shares no state between projects.
* A foreign resource stays what it is: nobody relabels or deletes it, and nobody
  but the operator edits the operator's own objects.
* Not modelled: the rendered text (SQL, YAML, PodSpecs; of Envoy all but the
  routes and filters), the CRD schema, the chart, generated code and the wiring
  in `cmd/main.go`. They have no state and no order of events; a model of them
  would repeat their text. The optional GoTrue environment sources are validated
  in each pass and are one of the failures of a service.

## Plan

Done: `ProjectReconcile` with `StatusContract`, `DurableResources`, `PowerSync`,
`ImplementationSecrets`, `ServiceRollout`, and `CredentialRotation` with its
parts; theorems for all of them. Next:

1. Action properties of the pipeline beyond `StatusContract`: what a single pass
   may do to a status (for instance, that only `CompleteReconcile` advances
   observedGeneration) for any number of services.
2. Liveness of a rotation: under fairness of the worker, of delivery and of the
   Deployment controller a valid new bundle reaches every pod.
