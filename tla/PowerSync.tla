----------------------------- MODULE PowerSync -----------------------------
(***************************************************************************)
(* Phase 6 of Reconcile: PowerSync and the change-data-capture permissions *)
(* it needs.                                                               *)
(*                                                                         *)
(* A pass validates the sync rules, waits for the managed roles and the    *)
(* publication, runs a Job that grants the permissions, and only then      *)
(* deploys PowerSync.  The Job reads its script from a ConfigMap of a      *)
(* fixed name when its container starts, while the reconciler recognises   *)
(* the script a Job belongs to by the hash it was annotated with.          *)
(*                                                                         *)
(* A script, its hash and a publication are all determined by the list of  *)
(* schemas, so each is represented by the set of schemas it is for.  One   *)
(* action stands for one resource of the pass; the project, the Job, the   *)
(* publication and the sync rules may change between any two.  The caches  *)
(* do not lag here: DurableResources and ProjectReconcile are about that.  *)
(***************************************************************************)
EXTENDS Naturals

CONSTANTS
    SchemaLists,  \* lists of schemas a user may ask for, as sets
    MaxRules,     \* sync rules documents a user may write, numbered from 1
    MaxEdits,     \* bound on what users change, the sync rules included
    MaxFailures   \* bound on failing Jobs, roles, Deployments and passes

ASSUME ConstantsAssumption ==
    /\ \A list \in SchemaLists : list # {}
    /\ MaxRules \in Nat
    /\ MaxEdits \in Nat
    /\ MaxFailures \in Nat

Schemas == UNION SchemaLists
Workloads == {"api", "replication"}

\* spec.powersync is not there, or names at least one schema, "public" if none.
Off == [on |-> FALSE, schemas |-> {}, compact |-> FALSE]
Specs == {Off} \cup [on : {TRUE}, schemas : SchemaLists, compact : BOOLEAN]

VARIABLES
    spec,       \* spec.powersync of the stored project
    work,       \* the reconciler's copy of it
    fresh,      \* does the copy carry the current resource version?
    loaded,     \* the sync rules the pass has read
    pc,         \* the step the reconciler is at
    queued,     \* is the project's key in the work queue?
    observed,   \* is status.observedGeneration the stored generation?
    rules,      \* the sync rules as they are, 0 when they are not valid
    roles,      \* the managed roles in the Cluster's status
    pub,        \* the Publication
    published,  \* the schemas the database publishes
    script,     \* the schemas of the CDC ConfigMap's script, none without it
    job,        \* the CDC permissions Job
    granted,    \* the schemas whose tables powersync_replication may read
    dep,        \* dep[w]: the sync rules in Deployment w's template, 0 without it
    up,         \* up[w]: is Deployment w ready at its current generation?
    compact,    \* is there a compaction CronJob?
    edits, failures

project == <<spec, edits>>
pass == <<work, fresh, loaded, pc, queued, observed>>
database == <<roles, published, granted>>
vars == <<project, pass, database, rules, pub, script, job, dep, up, compact, failures>>

\* current: status.observedGeneration is the generation; applied: status.applied.
Publications == [exists : BOOLEAN, schemas : SUBSET Schemas,
                 current : BOOLEAN, applied : BOOLEAN, deleting : BOOLEAN]
NoPublication == [exists |-> FALSE, schemas |-> {},
                  current |-> FALSE, applied |-> FALSE, deleting |-> FALSE]

\* hash is the annotation, ran the script the container has read.
Jobs == [state : {"absent", "waiting", "running", "complete", "failed"},
         hash : SUBSET Schemas, ran : SUBSET Schemas, deleting : BOOLEAN]
NoJob == [state |-> "absent", hash |-> {}, ran |-> {}, deleting |-> FALSE]

\* The resources of cleanupPowerSync in its order.
CleanupNext == [cleanApi |-> "cleanReplication", cleanReplication |-> "cleanScript",
                cleanScript |-> "cleanJob", cleanJob |-> "cleanCompact",
                cleanCompact |-> "cleanPublication", cleanPublication |-> "finish"]

TypeOK ==
    /\ spec \in Specs /\ work \in Specs /\ observed \in BOOLEAN
    /\ fresh \in BOOLEAN /\ queued \in BOOLEAN
    /\ loaded \in 0..MaxRules /\ rules \in 0..MaxRules
    /\ pc \in {"idle", "rules", "roles", "publication", "script", "job", "api",
               "replication", "compact", "report", "finish"} \cup DOMAIN CleanupNext
    /\ roles \in {"pending", "ready", "failed"}
    /\ pub \in Publications /\ job \in Jobs
    /\ published \subseteq Schemas /\ script \subseteq Schemas /\ granted \subseteq Schemas
    /\ dep \in [Workloads -> 0..MaxRules] /\ up \in [Workloads -> BOOLEAN]
    /\ compact \in BOOLEAN
    /\ edits \in 0..MaxEdits /\ failures \in 0..MaxFailures

Init ==
    /\ spec \in Specs
    /\ work = spec /\ fresh = FALSE /\ loaded = 0 /\ pc = "idle" /\ queued = TRUE
    /\ observed = FALSE
    /\ rules \in 0..MaxRules
    /\ roles = "pending" /\ published = {} /\ granted = {}
    /\ pub = NoPublication /\ script = {} /\ job = NoJob
    /\ dep = [w \in Workloads |-> 0] /\ up = [w \in Workloads |-> FALSE]
    /\ compact = FALSE
    /\ edits = 0 /\ failures = 0

-----------------------------------------------------------------------------
(* The pass.                                                               *)

\* The pass goes on, or Reconcile returns an error or a RequeueAfter.
Goto(next) == pc' = next /\ UNCHANGED <<work, fresh, loaded, queued, observed>>

Requeue ==
    /\ pc' = "idle" /\ queued' = TRUE
    /\ UNCHANGED <<work, fresh, loaded, observed>>

Start ==
    /\ pc = "idle" /\ queued
    /\ queued' = FALSE /\ work' = spec /\ fresh' = TRUE
    /\ pc' = IF spec.on THEN "rules" ELSE "cleanApi"
    /\ UNCHANGED <<loaded, observed, project, database, rules, pub, script, job, dep, up,
                   compact, failures>>

\* loadAndValidatePowerSyncRules.
ReconcilePowerSyncRulesValidation ==
    /\ pc = "rules"
    /\ IF rules = 0
         THEN Requeue
         ELSE loaded' = rules /\ pc' = "roles" /\ UNCHANGED <<work, fresh, queued, observed>>
    /\ UNCHANGED <<project, database, rules, pub, script, job, dep, up, compact, failures>>

WaitForPowerSyncManagedRoles ==
    /\ pc = "roles"
    /\ IF roles = "ready" THEN Goto("publication") ELSE Requeue
    /\ UNCHANGED <<project, database, rules, pub, script, job, dep, up, compact, failures>>

\* Mutant: the status of an earlier generation counts.
MutantPublicationIsApplied == pub.applied

PublicationIsApplied == pub.current /\ pub.applied

\* Create it or bring it to the spec and look again later, wait for CNPG to
\* apply it, or go on.
ReconcilePowerSyncPublication ==
    /\ pc = "publication"
    /\ pub' = IF ~pub.exists
                THEN [NoPublication EXCEPT !.exists = TRUE, !.schemas = work.schemas]
                ELSE [pub EXCEPT !.schemas = work.schemas,
                                 !.current = @ /\ pub.schemas = work.schemas]
    /\ IF pub' = pub /\ PublicationIsApplied THEN Goto("script") ELSE Requeue
    /\ UNCHANGED <<project, database, rules, script, job, dep, up, compact, failures>>

\* Mutant: the script also grants a schema nobody asked for.
MutantReconcileCDCScript ==
    /\ pc = "script"
    /\ script' = work.schemas \cup {"auth"}
    /\ Goto("job")
    /\ UNCHANGED <<project, database, rules, pub, job, dep, up, compact, failures>>

\* reconcileCDCPermissions: first the ConfigMap, then the Job.
ReconcileCDCScript ==
    /\ pc = "script"
    /\ script' = work.schemas
    /\ Goto("job")
    /\ UNCHANGED <<project, database, rules, pub, job, dep, up, compact, failures>>

\* Mutant: a Job for another script is waited for instead of deleted.
MutantCreateOrCheckJob ==
    /\ pc = "job"
    /\ job' = IF job.state = "absent"
                THEN [NoJob EXCEPT !.state = "waiting", !.hash = work.schemas] ELSE job
    /\ IF job.state = "complete" /\ job.hash = work.schemas THEN Goto("api") ELSE Requeue
    /\ UNCHANGED <<project, database, rules, pub, script, dep, up, compact, failures>>

\* A Job for another script is deleted in the foreground and stays until its
\* pods are gone; a Job for this script counts once it is complete.
CreateOrCheckJob ==
    /\ pc = "job"
    /\ job' = CASE job.state = "absent" -> [NoJob EXCEPT !.state = "waiting", !.hash = work.schemas]
                [] job.hash # work.schemas /\ job.state # "absent" -> [job EXCEPT !.deleting = TRUE]
                [] OTHER -> job
    /\ IF job.state = "complete" /\ job.hash = work.schemas THEN Goto("api") ELSE Requeue
    /\ UNCHANGED <<project, database, rules, pub, script, dep, up, compact, failures>>

\* Mutant: the sync rules are not part of the hash in the template.
MutantDeployed(w) == IF dep[w] = 0 THEN loaded ELSE dep[w]

\* applyPowerSyncConfigHash puts the rules into the template.
Deployed(w) == loaded

\* createOrUpdateDeployment: a changed template is rolled out anew.
Deploy(w, next) ==
    /\ pc = w
    /\ dep' = [dep EXCEPT ![w] = Deployed(w)]
    /\ up' = [up EXCEPT ![w] = @ /\ dep[w] = Deployed(w)]
    /\ Goto(next)
    /\ UNCHANGED <<project, database, rules, pub, script, job, compact, failures>>

DeployAPI == Deploy("api", "replication")
DeployReplication == Deploy("replication", "compact")

\* createOrUpdateCronJob or cleanupPowerSyncCompact.
ReconcileCompact ==
    /\ pc = "compact"
    /\ compact' = work.compact
    /\ Goto("report")
    /\ UNCHANGED <<project, database, rules, pub, script, job, dep, up, failures>>

ReportDeployments ==
    /\ pc = "report"
    /\ IF \A w \in Workloads : up[w] THEN Goto("finish") ELSE Requeue
    /\ UNCHANGED <<project, database, rules, pub, script, job, dep, up, compact, failures>>

\* The resource that step c of cleanupPowerSync deletes.  CNPG finalizes the
\* Publication, and the Job is terminating until the garbage collector has
\* orphaned its pods; the others go at once.
Clean(c) ==
    /\ dep' = [w \in Workloads |->
                 IF <<c, w>> \in {<<"cleanApi", "api">>, <<"cleanReplication", "replication">>}
                   THEN 0 ELSE dep[w]]
    /\ up' = [w \in Workloads |-> up[w] /\ dep'[w] # 0]
    /\ script' = IF c = "cleanScript" THEN {} ELSE script
    /\ job' = IF c = "cleanJob" /\ job.state # "absent"
                THEN [job EXCEPT !.deleting = TRUE] ELSE job
    /\ compact' = (compact /\ c # "cleanCompact")
    /\ pub' = IF c = "cleanPublication" /\ pub.exists
                THEN [pub EXCEPT !.deleting = TRUE, !.current = FALSE] ELSE pub

CleanupPowerSync ==
    /\ pc \in DOMAIN CleanupNext
    /\ Clean(pc)
    /\ Goto(CleanupNext[pc])
    /\ UNCHANGED <<project, database, rules, failures>>

\* The final status write, refused when the project was edited meanwhile.
Finish ==
    /\ pc = "finish"
    /\ pc' = "idle"
    /\ observed' = (observed \/ fresh)
    /\ queued' = (queued \/ ~fresh)
    /\ UNCHANGED <<work, fresh, loaded, project, database, rules, pub, script, job, dep, up,
                   compact, failures>>

\* Any other call fails or is refused, or the operator restarts.
Abort ==
    /\ pc # "idle"
    /\ failures < MaxFailures
    /\ failures' = failures + 1
    /\ Requeue
    /\ UNCHANGED <<project, database, rules, pub, script, job, dep, up, compact>>

Reconcile ==
    \/ Start \/ ReconcilePowerSyncRulesValidation \/ WaitForPowerSyncManagedRoles
    \/ ReconcilePowerSyncPublication \/ ReconcileCDCScript \/ CreateOrCheckJob
    \/ DeployAPI \/ DeployReplication \/ ReconcileCompact \/ ReportDeployments
    \/ CleanupPowerSync \/ Finish

-----------------------------------------------------------------------------
(* Around the reconciler.  Every change of a watched object enqueues the   *)
(* project.                                                                *)

Notify == queued' = TRUE /\ UNCHANGED <<work, fresh, loaded, pc, observed>>

EditSpec ==
    /\ edits < MaxEdits
    /\ edits' = edits + 1
    /\ spec' \in Specs \ {spec}
    /\ queued' = TRUE /\ fresh' = FALSE /\ observed' = FALSE
    /\ UNCHANGED <<work, loaded, pc, database, rules, pub, script, job, dep, up,
                   compact, failures>>

EditRules ==
    /\ edits < MaxEdits
    /\ edits' = edits + 1
    /\ rules' \in (0..MaxRules) \ {rules}
    /\ Notify
    /\ UNCHANGED <<spec, database, pub, script, job, dep, up, compact, failures>>

\* CNPG reconciles the roles, or cannot.
RolesChange ==
    /\ roles # "ready" \/ failures < MaxFailures
    /\ roles' \in {"ready", "failed"} \ {roles}
    /\ failures' = IF roles' = "ready" THEN failures ELSE failures + 1
    /\ failures' <= MaxFailures
    /\ Notify
    /\ UNCHANGED <<project, published, granted, rules, pub, script, job, dep, up, compact>>

\* CNPG applies the publication.
ApplyPublication ==
    /\ pub.exists /\ ~pub.deleting /\ ~pub.current
    /\ pub' = [pub EXCEPT !.current = TRUE, !.applied = TRUE]
    /\ published' = pub.schemas
    /\ Notify
    /\ UNCHANGED <<project, roles, granted, rules, script, job, dep, up, compact, failures>>

\* reclaimPolicy delete: the publication goes with the resource.
FinalizePublication ==
    /\ pub.deleting
    /\ pub' = NoPublication
    /\ published' = {}
    /\ Notify
    /\ UNCHANGED <<project, roles, granted, rules, script, job, dep, up, compact, failures>>

\* The Job's container starts and reads the script there is; a deletion of the
\* Job may not have reached its pod.
StartJob ==
    /\ job.state = "waiting"
    /\ script # {}
    /\ job' = [job EXCEPT !.state = "running", !.ran = script]
    /\ Notify
    /\ UNCHANGED <<project, database, rules, pub, script, dep, up, compact, failures>>

\* The grants are one transaction; a deletion may come too late to stop it.
CompleteJob ==
    /\ job.state = "running"
    /\ job' = [job EXCEPT !.state = "complete"]
    /\ granted' = granted \cup job.ran
    /\ Notify
    /\ UNCHANGED <<project, roles, published, rules, pub, script, dep, up, compact, failures>>

FailJob ==
    /\ job.state = "running"
    /\ failures < MaxFailures
    /\ failures' = failures + 1
    /\ job' = [job EXCEPT !.state = "failed"]
    /\ Notify
    /\ UNCHANGED <<project, database, rules, pub, script, dep, up, compact>>

\* The garbage collector is done with the Job's pods.  Those that cleanupPowerSync
\* left behind are not followed: all they could do is add to what is granted.
RemoveJob ==
    /\ job.deleting
    /\ job' = NoJob
    /\ Notify
    /\ UNCHANGED <<project, database, rules, pub, script, dep, up, compact, failures>>

\* A Deployment becomes ready or loses a replica.
DeploymentChanges ==
    \E w \in Workloads :
       /\ dep[w] # 0
       /\ up' = [up EXCEPT ![w] = ~@]
       /\ failures' = IF up[w] THEN failures + 1 ELSE failures
       /\ failures' <= MaxFailures
       /\ Notify
       /\ UNCHANGED <<project, database, rules, pub, script, job, dep, compact>>

Progress ==
    \/ ApplyPublication \/ FinalizePublication \/ StartJob \/ CompleteJob \/ RemoveJob

Next ==
    \/ Reconcile \/ Abort \/ EditSpec \/ EditRules
    \/ Progress \/ RolesChange \/ FailJob \/ DeploymentChanges

Spec == Init /\ [][Next]_vars

\* The work queue serves the key, and CNPG and the Job controller do their work.
FairSpec == Spec /\ WF_vars(Reconcile) /\ WF_vars(Progress)

-----------------------------------------------------------------------------
(* Properties.                                                             *)

Deploying == pc \in {"api", "replication", "compact", "report"}

\* publicationIsApplied: PowerSync is only deployed or updated while the
\* database publishes the schemas the pass is for, whatever the publication
\* was applied for earlier.
PublishedBeforePowerSync == Deploying => work.schemas = published

\* reconcileCDCPermissions returns early "so we don't proceed to deploy PowerSync
\* before permissions exist".
PermissionsBeforePowerSync == Deploying => work.schemas \subseteq granted

\* No key queued, no pass running.
Quiescent == pc = "idle" /\ ~queued

\* The operator only comes to rest when PowerSync, its publication and its
\* compaction are what the stored project and the current sync rules ask for,
\* and when PowerSync is disabled, with everything of it gone but a Job and a
\* Publication that are being deleted.
RestsConverged ==
    Quiescent =>
       /\ observed
       /\ spec.on => /\ rules # 0
                     /\ \A w \in Workloads : dep[w] = rules
                     /\ compact = spec.compact
                     /\ published = spec.schemas
                     /\ job.hash = spec.schemas
       /\ ~spec.on => /\ \A w \in Workloads : dep[w] = 0
                      /\ script = {} /\ ~compact
                      /\ job.state # "absent" => job.deleting
                      /\ pub.exists => pub.deleting

\* Enabling, disabling and changing the schemas in any order does not wedge
\* phase 6: with valid rules, working roles and Deployments and no failed Job,
\* the stored generation becomes the observed one.
EventuallyObserved ==
    <>[](/\ spec.on => rules # 0 /\ roles = "ready" /\ job.state # "failed"
         /\ \A w \in Workloads : dep[w] # 0 => up[w])
       => <>[]observed
=============================================================================
