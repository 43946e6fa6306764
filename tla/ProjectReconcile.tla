-------------------------- MODULE ProjectReconcile --------------------------
(***************************************************************************)
(* The phase pipeline of SupabaseProjectReconciler.Reconcile and the way   *)
(* it persists the project's status.                                       *)
(*                                                                         *)
(* The reconciler is one worker that takes the project's key from the work *)
(* queue, reads the SupabaseProject from the informer cache, runs the      *)
(* phases in order and persists the status as it goes.  What makes it hard *)
(* is that updateProjectStatus compares the status it holds with the       *)
(* CACHED project, which lags the API server, and writes under the         *)
(* resource version it read when the reconciliation began.                 *)
(*                                                                         *)
(* watch holds every version of the project from the one in the cache      *)
(* (the first) to the one in the API server (the last); delivering a watch *)
(* event drops the first.  Resource versions are therefore not counted:    *)
(* the reconciler's copy carries the current one iff fresh is TRUE.        *)
(*                                                                         *)
(* The other objects are reduced to what a phase asks of them (is the      *)
(* bundle valid, is the Cluster ready, is Deployment i ready) and are read *)
(* without lag here.                                                       *)
(***************************************************************************)
EXTENDS Naturals, Sequences

CONSTANTS
    NumServices,      \* core services, reconciled in the order 1..NumServices
    Specs,            \* project specs a user may write
    MaxGeneration,    \* bound on spec edits
    MaxWatch,         \* bound on undelivered project versions, plus one
    MaxDisturbances,  \* bound on things outside the operator going bad
    MaxFaults         \* bound on failed API calls and operator restarts

Services == 1..NumServices
Generations == 0..MaxGeneration

ASSUME ConstantsAssumption ==
    /\ NumServices \in Nat \ {0}
    /\ MaxGeneration \in Nat \ {0}
    /\ MaxWatch \in Nat \ {0}
    /\ MaxDisturbances \in Nat
    /\ MaxFaults \in Nat
    /\ Specs \subseteq [size : Nat, recovery : BOOLEAN, hook : BOOLEAN, powersync : BOOLEAN]

VARIABLES
    watch,        \* versions of the project, informer cache first, API server last
    proj,         \* the reconciler's working copy of the project
    fresh,        \* does proj carry the API server's resource version?
    pc,           \* the phase the reconciler is in
    svc,          \* the next core service to reconcile
    queued,       \* is the project's key in the work queue?
    credentials,  \* is the external credential bundle present and valid?
    cluster,      \* the CNPG Cluster
    dbUp,         \* has the Cluster all its instances ready?
    up,           \* up[i]: is Deployment i ready at its current generation?
    psState,      \* what the PowerSync phase finds
    disturbances, faults

env == <<credentials, cluster, dbUp, up, psState, disturbances>>
vars == <<watch, proj, fresh, pc, svc, queued, env, faults>>

-----------------------------------------------------------------------------
(* The project and its status.  A condition is its reason and the          *)
(* generation setCondition stamps on it; reason "none" is a condition      *)
(* that is not there.                                                      *)

Condition(reasons) == [reason : reasons, gen : Generations]
NoCondition == [reason |-> "none", gen |-> 0]

Phases == {"None", "Pending", "Provisioning", "Running"}
ReadyReasons == {"none", "SecretsNotReady", "CoreServicesPending",
                 "CoreServicesFailed", "AllComponentsReady"}
SecretsTrue == {"SecretsReady", "CredentialsValidated"}
SecretsReasons == SecretsTrue \cup
                  {"none", "InvalidProjectCredentials", "ImplementationSecretFailed",
                   "JWKSConfigMapFailed"}
DatabaseReasons == {"none", "Creating", "CreateFailed", "WaitingForInstances",
                    "BootstrapImmutable", "StorageShrink", "Ready"}
ServiceReasons == {"none", "DeploymentPending", "DeploymentFailed", "Ready"}
CDCReasons == {"none", "Pending", "CDCPermissionsApplied"}
PowersyncReasons == {"none", "InvalidSyncRules", "DeploymentsPending", "Ready"}

Status == [phase     : Phases,
           observed  : Generations,       \* status.observedGeneration
           ready     : Condition(ReadyReasons),
           secrets   : Condition(SecretsReasons),
           database  : Condition(DatabaseReasons),
           services  : [Services -> Condition(ServiceReasons)],
           cdc       : Condition(CDCReasons),
           powersync : Condition(PowersyncReasons),
           hook      : BOOLEAN,           \* status.secretNames.emailHook is set
           dbReady   : BOOLEAN,           \* status.database.ready
           api       : BOOLEAN]           \* status.endpoints.api is set

Project == [gen : Generations, spec : Specs, status : Status]

EmptyStatus == [phase |-> "None", observed |-> 0, ready |-> NoCondition,
                secrets |-> NoCondition, database |-> NoCondition,
                services |-> [i \in Services |-> NoCondition],
                cdc |-> NoCondition, powersync |-> NoCondition,
                hook |-> FALSE, dbReady |-> FALSE, api |-> FALSE]

\* The rules are rejected; roles, publication or CDC Job are not done; the
\* Deployments are not ready; everything is ready.
PowerSyncStates == {"invalid", "cdcPending", "pending", "ready"}

\* The Cluster: its bootstrap mode is fixed at creation, its storage only
\* grows, its managed roles (for every other mutable field) follow the spec.
Clusters == [exists : BOOLEAN, size : Nat, recovery : BOOLEAN, roles : BOOLEAN]
NoCluster == [exists |-> FALSE, size |-> 0, recovery |-> FALSE, roles |-> FALSE]
BuildCluster(s) ==
    [exists |-> TRUE, size |-> s.size, recovery |-> s.recovery, roles |-> s.powersync]

\* The version in the informer cache and the one in the API server.
cached == watch[1]
api == watch[Len(watch)]

\* The working copy outside a reconciliation: the variable is out of scope.
NoProject == [gen |-> 0, spec |-> CHOOSE s \in Specs : TRUE, status |-> EmptyStatus]

\* Mutant: the condition is stamped with the generation to come.
MutantCond(p, reason) == [reason |-> reason, gen |-> p.gen + 1]

\* setCondition stamps the generation of the working copy.
Cond(p, reason) == [reason |-> reason, gen |-> p.gen]

TypeOK ==
    /\ watch \in Seq(Project)
    /\ Len(watch) \in 1..MaxWatch
    /\ proj \in Project
    /\ fresh \in BOOLEAN
    /\ pc \in {"idle", "secrets", "implementation", "secretsFailed", "secretsDone",
               "recovery", "cluster", "database", "services", "coreFailed",
               "powersync", "finish"}
    /\ svc \in 1..(NumServices + 1)
    /\ queued \in BOOLEAN
    /\ credentials \in BOOLEAN
    /\ cluster \in Clusters
    /\ dbUp \in BOOLEAN
    /\ up \in [Services -> BOOLEAN]
    /\ psState \in PowerSyncStates
    /\ disturbances \in 0..MaxDisturbances
    /\ faults \in 0..MaxFaults

\* A project as the user has just created it; nothing else exists.
Init ==
    /\ \E s \in Specs : watch = <<[gen |-> 1, spec |-> s, status |-> EmptyStatus]>>
    /\ proj = NoProject
    /\ fresh = FALSE
    /\ pc = "idle"
    /\ svc = 1
    /\ queued = TRUE
    /\ credentials \in BOOLEAN
    /\ cluster = NoCluster
    /\ dbUp = FALSE
    /\ up = [i \in Services |-> FALSE]
    /\ psState \in {"invalid", "cdcPending"}
    /\ disturbances = 0
    /\ faults = 0

-----------------------------------------------------------------------------
(* Ending a reconciliation and persisting the status.                      *)

\* Mutant: events that arrive during a reconciliation are lost.
MutantReturn(again) ==
    /\ pc' = "idle"
    /\ queued' = again
    /\ proj' = NoProject
    /\ fresh' = FALSE
    /\ svc' = 1

\* Reconcile returns; again is a non-nil error or a RequeueAfter.
Return(again) ==
    /\ pc' = "idle"
    /\ queued' = (queued \/ again)
    /\ proj' = NoProject
    /\ fresh' = FALSE
    /\ svc' = 1

\* The phase goes on to the next one with working copy p.
Continue(p, next) ==
    /\ pc' = next
    /\ proj' = p
    /\ UNCHANGED <<fresh, svc, queued>>

\* Status().Update is refused: the copy's resource version is not the current one.
Conflict(p) == p.status # cached.status /\ ~fresh

\* Mutant: the status is patched without a resource version.
MutantUpdateProjectStatus(p) ==
    IF p.status = cached.status
      THEN UNCHANGED watch
      ELSE /\ Len(watch) < MaxWatch
           /\ watch' = Append(watch, [api EXCEPT !.status = p.status])

\* updateProjectStatus: nothing is sent when the cached status is already the
\* wanted one; otherwise the write succeeds iff the resource version is current.
UpdateProjectStatus(p) ==
    IF p.status = cached.status \/ Conflict(p)
      THEN UNCHANGED watch
      ELSE /\ Len(watch) < MaxWatch
           /\ watch' = Append(watch, p)

\* if err := updateProjectStatus(p); err != nil { return err }
PersistThen(p, next) ==
    /\ UpdateProjectStatus(p)
    /\ IF Conflict(p) THEN Return(TRUE) ELSE Continue(p, next)

\* Mutant: the error of the write is dropped.
MutantPersistAndReturn(p, again) ==
    /\ UpdateProjectStatus(p)
    /\ Return(again)

\* The status is persisted and Reconcile returns whatever came of it.
PersistAndReturn(p, again) ==
    /\ UpdateProjectStatus(p)
    /\ Return(again \/ Conflict(p))

-----------------------------------------------------------------------------
(* The phases of Reconcile.                                                *)

\* The worker takes the key and reads the project from the informer cache.
StartReconcile ==
    /\ pc = "idle"
    /\ queued
    /\ queued' = FALSE
    /\ proj' = IF cached.status.phase = "None"
                 THEN [cached EXCEPT !.status.phase = "Pending"]
                 ELSE cached
    /\ fresh' = (Len(watch) = 1)
    /\ pc' = "secrets"
    /\ UNCHANGED <<watch, svc, env, faults>>

\* reconcileSecrets leaves the phase Pending behind before anything can fail.
Provisioned(p) ==
    IF p.status.phase = "Pending" THEN [p EXCEPT !.status.phase = "Provisioning"] ELSE p

\* Mutant: the aggregate condition is left to a later phase.
MutantFailReconcileSecrets(p, reason) == [p EXCEPT !.status.secrets = Cond(p, reason)]

\* failReconcileSecrets: SecretsReady and the aggregate Ready in one write.
FailReconcileSecrets(p, reason) ==
    [p EXCEPT !.status.secrets = Cond(p, reason),
              !.status.ready = Cond(p, "SecretsNotReady")]

\* reconcileSecrets up to ValidateProjectCredentials.
ReconcileSecrets ==
    /\ pc = "secrets"
    /\ LET p == Provisioned(proj)
       IN  IF credentials
             THEN Continue(p, "implementation") /\ UNCHANGED watch
             ELSE PersistAndReturn(FailReconcileSecrets(p, "InvalidProjectCredentials"), TRUE)
    /\ UNCHANGED <<env, faults>>

\* The bundle cannot be read.
FailReadCredentials ==
    /\ pc = "secrets"
    /\ faults < MaxFaults
    /\ faults' = faults + 1
    /\ PersistAndReturn(FailReconcileSecrets(Provisioned(proj), "InvalidProjectCredentials"), TRUE)
    /\ UNCHANGED env

\* reconcileImplementationSecrets ends with the email hook Secret, which writes
\* a status of its own when there is something to say.
ReconcileImplementationSecrets ==
    /\ pc = "implementation"
    /\ IF ~proj.spec.hook /\ ~proj.status.hook
         THEN Continue(proj, "secretsDone") /\ UNCHANGED watch
         ELSE LET p == [proj EXCEPT !.status.hook = proj.spec.hook,
                                    !.status.secrets = IF proj.spec.hook
                                                         THEN Cond(proj, "SecretsReady") ELSE @]
              IN  /\ UpdateProjectStatus(p)
                  /\ Continue(p, IF Conflict(p) THEN "secretsFailed" ELSE "secretsDone")
    /\ UNCHANGED <<env, faults>>

\* An implementation Secret cannot be generated, read or written.  A PowerSync
\* or email hook Secret writes SecretsReady=False before failReconcileSecrets
\* does, whether or not that write succeeds; a generated Secret does not.
FailImplementationSecrets ==
    /\ pc = "implementation"
    /\ faults < MaxFaults
    /\ faults' = faults + 1
    /\ LET p == [proj EXCEPT !.status.secrets = Cond(proj, "ImplementationSecretFailed")]
       IN  /\ UNCHANGED watch \/ UpdateProjectStatus(p)
           /\ Continue(p, "secretsFailed")
    /\ UNCHANGED env

ReportSecretsFailure ==
    /\ pc = "secretsFailed"
    /\ PersistAndReturn(FailReconcileSecrets(proj, "ImplementationSecretFailed"), TRUE)
    /\ UNCHANGED <<env, faults>>

ReportSecretsReady ==
    /\ pc = "secretsDone"
    /\ PersistThen([proj EXCEPT !.status.secrets = Cond(proj, "CredentialsValidated")], "recovery")
    /\ UNCHANGED <<env, faults>>

\* The phase ends in an error that is recorded in DatabaseReady alone.
FailDatabase(reason) ==
    PersistAndReturn([proj EXCEPT !.status.database = Cond(proj, reason)], TRUE)

\* Mutant: the bootstrap is not compared.
MutantBootstrapChanged == FALSE

BootstrapChanged == cluster.exists /\ cluster.recovery # proj.spec.recovery

ValidateRecoveryBootstrapIntent ==
    /\ pc = "recovery"
    /\ IF BootstrapChanged
         THEN FailDatabase("BootstrapImmutable")
         ELSE Continue(proj, "cluster") /\ UNCHANGED watch
    /\ UNCHANGED <<env, faults>>

\* The Cluster does not exist: create it, say so, look again later.
CreateCluster ==
    /\ ~cluster.exists
    /\ cluster' = BuildCluster(proj.spec)
    /\ PersistAndReturn([proj EXCEPT !.status.database = Cond(proj, "Creating")], TRUE)

\* Creating it fails.
FailCreateCluster ==
    /\ pc = "cluster"
    /\ ~cluster.exists
    /\ faults < MaxFaults
    /\ faults' = faults + 1
    /\ FailDatabase("CreateFailed")
    /\ UNCHANGED env

\* The JWKS ConfigMap, written before the Cluster, cannot be.  SecretsReady turns
\* False in a write of its own, which leaves Ready as it is.
FailJWKSConfigMap ==
    /\ pc = "cluster"
    /\ faults < MaxFaults
    /\ faults' = faults + 1
    /\ PersistAndReturn([proj EXCEPT !.status.secrets = Cond(proj, "JWKSConfigMapFailed")], TRUE)
    /\ UNCHANGED env

\* It exists with another bootstrap or more storage than asked for.
RejectClusterChange ==
    /\ cluster.exists
    /\ BootstrapChanged \/ proj.spec.size < cluster.size
    /\ FailDatabase(IF BootstrapChanged THEN "BootstrapImmutable" ELSE "StorageShrink")
    /\ UNCHANGED cluster

\* reconcileClusterMutableFields copies everything but the bootstrap.
ReconcileClusterMutableFields == [BuildCluster(proj.spec) EXCEPT !.recovery = cluster.recovery]

\* It exists and can be brought to the spec: update it, look again later.  No
\* status is written on this path.
UpdateCluster ==
    /\ cluster.exists
    /\ ~BootstrapChanged
    /\ proj.spec.size >= cluster.size
    /\ cluster # ReconcileClusterMutableFields
    /\ cluster' = ReconcileClusterMutableFields
    /\ Return(TRUE)
    /\ UNCHANGED watch

KeepCluster ==
    /\ cluster.exists
    /\ ~BootstrapChanged
    /\ cluster = ReconcileClusterMutableFields
    /\ Continue(proj, "database")
    /\ UNCHANGED <<watch, cluster>>

ReconcileCNPGCluster ==
    /\ pc = "cluster"
    /\ CreateCluster \/ RejectClusterChange \/ UpdateCluster \/ KeepCluster
    /\ UNCHANGED <<credentials, dbUp, up, psState, disturbances, faults>>

\* status.endpoints is rebuilt with the database endpoint only.
DatabaseIsReady(p) ==
    [p EXCEPT !.status.dbReady = TRUE, !.status.api = FALSE,
              !.status.database = Cond(p, "Ready")]

WaitForDatabase ==
    /\ pc = "database"
    /\ IF dbUp
         THEN PersistThen(DatabaseIsReady(proj), "services")
         ELSE PersistAndReturn([proj EXCEPT !.status.database = Cond(proj, "WaitingForInstances")],
                               TRUE)
    /\ UNCHANGED <<env, faults>>

\* One core service: its Deployment and Service exist, its readiness is read.
ReconcileServiceComponent ==
    /\ pc = "services"
    /\ svc \in Services
    /\ proj' = [proj EXCEPT !.status.services[svc] =
                    Cond(proj, IF up[svc] THEN "Ready" ELSE "DeploymentPending")]
    /\ svc' = svc + 1
    /\ UNCHANGED <<watch, fresh, pc, queued, env, faults>>

\* Creating or updating its Deployment or Service fails: the component's
\* condition is written first, the aggregate by failCoreServices after it,
\* whether or not the first write succeeded.  Auth (the first service) writes
\* nothing of its own when buildAuthDeployment fails.
FailServiceComponent ==
    /\ pc = "services"
    /\ svc \in Services
    /\ faults < MaxFaults
    /\ faults' = faults + 1
    /\ LET p == [proj EXCEPT !.status.services[svc] = Cond(proj, "DeploymentFailed")]
       IN  \/ UpdateProjectStatus(p) /\ Continue(p, "coreFailed")
           \/ svc = 1 /\ UNCHANGED watch /\ Continue(proj, "coreFailed")
    /\ UNCHANGED env

FailCoreServices ==
    /\ pc = "coreFailed"
    /\ PersistAndReturn([proj EXCEPT !.status.phase = "Provisioning",
                                     !.status.ready = Cond(proj, "CoreServicesFailed")], TRUE)
    /\ UNCHANGED <<env, faults>>

CoreServicesReady(p) == \A i \in Services : p.status.services[i].reason = "Ready"

\* The end of reconcileGateway and of reconcileServices.
CompleteServices ==
    /\ pc = "services"
    /\ svc \notin Services
    /\ LET p == [proj EXCEPT !.status.api = TRUE]
       IN  IF CoreServicesReady(p)
             THEN Continue(p, "powersync") /\ UNCHANGED watch
             ELSE PersistAndReturn([p EXCEPT !.status.phase = "Provisioning",
                                             !.status.ready = Cond(p, "CoreServicesPending")],
                                   TRUE)
    /\ UNCHANGED <<env, faults>>

\* Phase 6 with PowerSync enabled: its False conditions leave Ready alone.
ReconcilePowersync ==
    /\ pc = "powersync"
    /\ proj.spec.powersync
    /\ LET applied == [proj EXCEPT !.status.cdc = Cond(proj, "CDCPermissionsApplied")]
           With(p, reason) == [p EXCEPT !.status.powersync = Cond(p, reason)]
       IN  CASE psState = "invalid" -> PersistAndReturn(With(proj, "InvalidSyncRules"), TRUE)
             [] psState = "cdcPending" ->
                    PersistAndReturn([proj EXCEPT !.status.cdc = Cond(proj, "Pending")], TRUE)
             [] psState = "pending" -> PersistAndReturn(With(applied, "DeploymentsPending"), TRUE)
             [] psState = "ready" -> Continue(With(applied, "Ready"), "finish") /\ UNCHANGED watch
    /\ UNCHANGED <<env, faults>>

\* Phase 6 with PowerSync disabled: its workloads, publication and Job are
\* deleted, then its conditions are removed.
CleanupPowerSync ==
    /\ pc = "powersync"
    /\ ~proj.spec.powersync
    /\ IF proj.status.powersync = NoCondition /\ proj.status.cdc = NoCondition
         THEN Continue(proj, "finish") /\ UNCHANGED watch
         ELSE PersistThen([proj EXCEPT !.status.powersync = NoCondition,
                                       !.status.cdc = NoCondition], "finish")
    /\ psState' = IF psState = "invalid" THEN "invalid" ELSE "cdcPending"
    /\ UNCHANGED <<credentials, cluster, dbUp, up, disturbances, faults>>

\* All phases complete: the only place that reports Running and Ready.
CompleteReconcile ==
    /\ pc = "finish"
    /\ PersistAndReturn([proj EXCEPT !.status.phase = "Running",
                                     !.status.observed = proj.gen,
                                     !.status.ready = Cond(proj, "AllComponentsReady")], FALSE)
    /\ UNCHANGED <<env, faults>>

\* Another API call of a phase fails and Reconcile returns the error as it is.
\* (Those of reconcileImplementationSecrets go through failReconcileSecrets,
\* those of reconcileServices through failCoreServices.  BackupReady and
\* RecoveryReady, which a failed archive records, are left to DurableResources.)
FailApiCall ==
    /\ pc \notin {"idle", "implementation"}
    /\ pc = "services" => svc \notin Services
    /\ faults < MaxFaults
    /\ faults' = faults + 1
    /\ Return(TRUE)
    /\ UNCHANGED <<watch, env>>

\* The operator restarts: the informer lists anew and enqueues every project.
Restart ==
    /\ faults < MaxFaults
    /\ faults' = faults + 1
    /\ watch' = <<api>>
    /\ Return(TRUE)
    /\ UNCHANGED env

-----------------------------------------------------------------------------
(* Everything around the reconciler.                                       *)

\* Mutant: the predicate drops the events of the project altogether.
MutantDeliverProject ==
    /\ Len(watch) > 1
    /\ watch' = Tail(watch)
    /\ UNCHANGED <<proj, fresh, pc, svc, queued, env, faults>>

\* A watch event reaches the informer: GenerationChangedPredicate drops the
\* ones that only change the status.
DeliverProject ==
    /\ Len(watch) > 1
    /\ watch' = Tail(watch)
    /\ queued' = (queued \/ watch[2].gen # watch[1].gen)
    /\ UNCHANGED <<proj, fresh, pc, svc, env, faults>>

\* The user changes the spec, possibly in the middle of a reconciliation.
EditSpec ==
    /\ api.gen < MaxGeneration
    /\ Len(watch) < MaxWatch
    /\ \E s \in Specs \ {api.spec} :
          watch' = Append(watch, [api EXCEPT !.gen = @ + 1, !.spec = s])
    /\ fresh' = FALSE
    /\ UNCHANGED <<proj, pc, svc, queued, env, faults>>

\* The object changes and its watch event enqueues the project.  Going bad
\* is bounded, coming good is not.
Disturb(bad) ==
    /\ bad => disturbances < MaxDisturbances
    /\ disturbances' = disturbances + (IF bad THEN 1 ELSE 0)
    /\ queued' = TRUE
    /\ UNCHANGED <<watch, proj, fresh, pc, svc, cluster, faults>>

RotateCredentials ==
    /\ Disturb(credentials)
    /\ credentials' = ~credentials
    /\ UNCHANGED <<dbUp, up, psState>>

DatabaseChanges ==
    /\ cluster.exists
    /\ Disturb(dbUp)
    /\ dbUp' = ~dbUp
    /\ UNCHANGED <<credentials, up, psState>>

DeploymentChanges ==
    \E i \in Services :
       /\ Disturb(up[i])
       /\ up' = [up EXCEPT ![i] = ~@]
       /\ UNCHANGED <<credentials, dbUp, psState>>

\* While PowerSync is enabled; before, and after cleanup, none of it exists.
PowerSyncChanges ==
    /\ api.spec.powersync
    /\ \E s \in PowerSyncStates \ {psState} :
          /\ Disturb(s # "ready")
          /\ psState' = s
    /\ UNCHANGED <<credentials, dbUp, up>>

Reconcile ==
    \/ StartReconcile \/ ReconcileSecrets \/ ReconcileImplementationSecrets
    \/ ReportSecretsFailure \/ ReportSecretsReady \/ ValidateRecoveryBootstrapIntent
    \/ ReconcileCNPGCluster \/ WaitForDatabase
    \/ ReconcileServiceComponent \/ FailCoreServices \/ CompleteServices
    \/ ReconcilePowersync \/ CleanupPowerSync \/ CompleteReconcile

Environment ==
    \/ DeliverProject \/ EditSpec \/ RotateCredentials \/ DatabaseChanges
    \/ DeploymentChanges \/ PowerSyncChanges

Faults ==
    \/ FailReadCredentials \/ FailImplementationSecrets \/ FailCreateCluster
    \/ FailJWKSConfigMap \/ FailServiceComponent \/ FailApiCall \/ Restart

Next == Reconcile \/ Faults \/ Environment

Spec == Init /\ [][Next]_vars

\* The work queue always hands the key to a worker, a worker always goes on,
\* and watch events are always delivered.
FairSpec == Spec /\ WF_vars(Reconcile) /\ WF_vars(DeliverProject)

-----------------------------------------------------------------------------
(* Properties.                                                             *)

ReadyTrue(s) == s.ready.reason = "AllComponentsReady"

\* Everything a status that reports Ready=True claims.
ComponentsReady(p) ==
    /\ p.status.secrets.reason \in SecretsTrue
    /\ p.status.database.reason = "Ready"
    /\ CoreServicesReady(p)
    /\ p.spec.powersync => /\ p.status.cdc.reason = "CDCPermissionsApplied"
                           /\ p.status.powersync.reason = "Ready"

\* failReconcileSecrets clears the aggregate condition in the write that reports
\* a bad bundle, so no version of the project, cached or stored, is advertised
\* as Ready after a bad credential rotation.  (An implementation Secret's
\* failure is written twice and gives no such guarantee.)
NeverReadyWithBadCredentials ==
    \A i \in DOMAIN watch :
       ~(ReadyTrue(watch[i].status) /\ watch[i].status.secrets.reason = "InvalidProjectCredentials")

\* observedGeneration = generation tells a client that this spec has been
\* applied to the database, whatever edits raced with the reconciliation.
ObservedGenerationApplied ==
    api.status.observed = api.gen =>
       cluster = BuildCluster(api.spec)

\* Nothing left to do: no key queued, no reconciliation running, cache in step.
Quiescent == pc = "idle" /\ ~queued /\ Len(watch) = 1

\* The operator only comes to rest on a status that says what is the case.
QuiescentMeansConverged ==
    Quiescent =>
       /\ api.status.phase = "Running"
       /\ ReadyTrue(api.status)
       /\ ComponentsReady(api)
       /\ api.status.observed = api.gen
       /\ credentials /\ dbUp /\ \A i \in Services : up[i]

\* The persisted status keeps the contract of StatusContract: Ready is raised and
\* observedGeneration advanced only by a status that reports every component
\* ready for the generation stored at that moment.
Contract == INSTANCE StatusContract WITH
    generation <- api.gen,
    observed   <- api.status.observed,
    ready      <- ReadyTrue(api.status),
    sound      <- ComponentsReady(api)

ImplementsStatusContract == Contract!Spec

\* Everything outside the operator is in order and the spec can be applied to
\* the Cluster there is.
Healthy ==
    /\ credentials
    /\ cluster.exists => /\ dbUp
                         /\ cluster.recovery = api.spec.recovery
                         /\ cluster.size <= api.spec.size
    /\ \A i \in Services : up[i]
    /\ api.spec.powersync => psState = "ready"

Converged ==
    /\ api.status.phase = "Running"
    /\ api.status.observed = api.gen
    /\ ReadyTrue(api.status)
    /\ ComponentsReady(api)

\* Level triggering: once the world stays in order the project becomes Ready
\* at its current generation and stays so, whatever was lost, late or
\* refused on the way.
EventuallyConverges == <>[]Healthy => <>[]Converged

\* A bad credential bundle is reported even to a project that was Ready, though
\* a stale cache may make a write look unnecessary or refuse it.
BadCredentialsReported == <>[](~credentials) => <>[](~ReadyTrue(api.status))

\* README: the API endpoint is <project>-api-gw:8000.
RunningHasApiEndpoint ==
    Quiescent /\ api.status.phase = "Running" => api.status.api
=============================================================================
