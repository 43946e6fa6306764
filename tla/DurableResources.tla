-------------------------- MODULE DurableResources --------------------------
(***************************************************************************)
(* The resources that outlive a SupabaseProject: the CNPG Cluster, the     *)
(* backup and recovery ObjectStores and the ScheduledBackup.               *)
(*                                                                         *)
(* They are found by their deterministic names and an instance label, must *)
(* carry no owner reference to the project (older operators set one, and   *)
(* the garbage collector would act on it), are kept when the project is    *)
(* deleted and adopted when one of the same name is created again.         *)
(*                                                                         *)
(* One action stands for one API call of Reconcile together with the       *)
(* decision that leads to it, so that a crash, a spec edit, a deletion or  *)
(* the garbage collector may come between any two.  The phases that do not *)
(* touch these resources (secrets, services, PowerSync) are left out: to   *)
(* them a failure is Abort.                                                *)
(*                                                                         *)
(* With StaleReads the reconciler sees these resources through informer    *)
(* caches that lag the API server, each on its own; the lag of the project *)
(* itself is the subject of ProjectReconcile.                              *)
(***************************************************************************)
EXTENDS Naturals

CONSTANTS
    Specs,            \* database specs a user may write
    Legacy,           \* may an older operator have left owner references?
    StaleReads,       \* do the resource caches lag the API server?
    MaxEdits,         \* bound on spec edits
    MaxIncarnations   \* bound on projects created under the name

ASSUME ConstantsAssumption ==
    /\ Legacy \in BOOLEAN
    /\ StaleReads \in BOOLEAN
    /\ MaxEdits \in Nat
    /\ MaxIncarnations \in Nat \ {0}
    \* server is the recovery source's serverName ("none": recovery disabled),
    \* path its destinationPath.
    /\ Specs \subseteq [size : Nat, backup : BOOLEAN, server : STRING, path : STRING]

VARIABLES
    project,    \* the SupabaseProject in the API server
    work,       \* the reconciler's working copy
    fresh,      \* does work carry the current resource version?
    pc,         \* the step the reconciler is at
    obj,        \* obj[k]: the durable resource k in the API server
    seen,       \* seen[k]: the durable resource k in the informer cache
    protected,  \* history: has an owner-reference repair been completed?
    settled,    \* history: has the stored spec been reconciled to the end?
    edits

vars == <<project, work, fresh, pc, obj, seen, protected, settled, edits>>

Kinds == {"cluster", "store", "recoveryStore", "schedule"}
Incarnations == 1..MaxIncarnations
Servers == {s.server : s \in Specs} \cup {"none"}
Paths == {s.path : s \in Specs} \cup {"none"}
Sizes == {s.size : s \in Specs} \cup {0}

\* backup and recovery: does the status have a BackupReady (RecoveryReady)
\* condition, True or False?
Projects == [exists : BOOLEAN, inc : Incarnations, spec : Specs,
             backup : BOOLEAN, recovery : BOOLEAN]

\* owner is the incarnation of the project in the owner reference, 0 for none.
\* server, size and plugin are the Cluster's, path is the ObjectStore's; the
\* Cluster's path is history: where its bootstrap found the source.
Objects == [exists : BOOLEAN, label : {"own", "foreign"}, owner : 0..MaxIncarnations,
            server : Servers, path : Paths, size : Sizes, plugin : BOOLEAN]

Absent == [exists |-> FALSE, label |-> "own", owner |-> 0,
           server |-> "none", path |-> "none", size |-> 0, plugin |-> FALSE]

\* BuildCluster, BuildObjectStore, BuildRecoveryObjectStore, BuildScheduledBackup.
Build(k, s) ==
    LET new == [Absent EXCEPT !.exists = TRUE]
    IN  CASE k = "cluster" -> [new EXCEPT !.server = s.server, !.path = s.path,
                                          !.size = s.size, !.plugin = s.backup]
          [] k = "recoveryStore" -> [new EXCEPT !.path = s.path]
          [] OTHER -> new

Recovers(s) == s.server # "none"
Wanted(k, s) ==
    CASE k = "cluster" -> TRUE
      [] k = "recoveryStore" -> Recovers(s)
      [] OTHER -> s.backup

\* What the reconciler reads.
view == IF StaleReads THEN seen ELSE obj

TypeOK ==
    /\ project \in Projects /\ work \in Projects
    /\ fresh \in BOOLEAN
    /\ pc \in {"idle", "protectCluster", "protectStore", "protectRecoveryStore",
               "protectSchedule", "validate", "backup", "schedule", "backupDone",
               "cleanStore", "backupCleaned", "recovery", "recoveryDone",
               "recoveryCleaned", "cluster"}
    /\ obj \in [Kinds -> Objects] /\ seen \in [Kinds -> Objects]
    /\ protected \in BOOLEAN /\ settled \in BOOLEAN
    /\ edits \in 0..MaxEdits

\* A new project with spec s, some of whose names may be taken by somebody
\* else's resources; or, after an upgrade, a project whose resources carry the
\* owner reference the older operator set.
InitFrom(s, foreign, upgraded) ==
    LET made == {k \in Kinds : upgraded /\ Wanted(k, s)}
    IN
    /\ upgraded => Legacy /\ foreign = {}
    /\ obj = [k \in Kinds |->
                CASE k \in foreign -> [Build(k, s) EXCEPT !.label = "foreign"]
                  [] k \in made -> [Build(k, s) EXCEPT !.owner = 1]
                  [] OTHER -> Absent]
    /\ project = [exists |-> TRUE, inc |-> 1, spec |-> s,
                  backup |-> "store" \in made, recovery |-> "recoveryStore" \in made]
    /\ work = project
    /\ fresh = FALSE
    /\ pc = "idle"
    /\ seen = obj
    /\ protected = FALSE
    /\ settled = FALSE
    /\ edits = 0

Init == \E s \in Specs, foreign \in SUBSET Kinds, upgraded \in BOOLEAN : InitFrom(s, foreign, upgraded)

-----------------------------------------------------------------------------
(* Steps of a reconciliation.                                              *)

\* A step that changes the resources only, and one that ends the reconciliation.
Goto(next) ==
    /\ pc' = next
    /\ UNCHANGED <<project, work, fresh, seen, settled, edits>>

End == pc' = "idle" /\ UNCHANGED <<work, fresh, seen, edits>>

\* updateProjectStatus(w).
Persists(w) ==
    /\ project.exists
    /\ fresh \/ (w.backup = project.backup /\ w.recovery = project.recovery)

Persist(w, next) ==
    /\ work' = w
    /\ project' = IF fresh THEN w ELSE project
    /\ pc' = IF Persists(w) THEN next ELSE "idle"
    /\ UNCHANGED <<fresh, obj, seen, protected, settled, edits>>

Start ==
    /\ pc = "idle"
    /\ project.exists
    /\ work' = project
    /\ fresh' = TRUE
    /\ pc' = "protectCluster"
    /\ UNCHANGED <<project, obj, seen, protected, settled, edits>>

\* Any call fails or the operator crashes: the rest of the pass is lost.
Abort ==
    /\ pc # "idle"
    /\ End
    /\ UNCHANGED <<project, obj, protected, settled>>

\* reconcileDurableMetadataProtection, one resource at a time.
ProtectAt == [protectCluster |-> "cluster", protectStore |-> "store",
              protectRecoveryStore |-> "recoveryStore", protectSchedule |-> "schedule"]
ProtectNext == [protectCluster |-> "protectStore", protectStore |-> "protectRecoveryStore",
                protectRecoveryStore |-> "protectSchedule", protectSchedule |-> "validate"]

ReconcileDurableMetadataProtection ==
    /\ pc \in DOMAIN ProtectAt
    /\ LET k == ProtectAt[pc]
           repairs == view[k].exists /\ view[k].label = "own" /\ view[k].owner # 0
       IN  /\ repairs => obj[k] = view[k]
           /\ obj' = IF repairs THEN [obj EXCEPT ![k].owner = 0] ELSE obj
    /\ protected' = (protected \/ pc = "protectSchedule")
    /\ Goto(ProtectNext[pc])

\* recoveryBootstrapIntentChanged against the Cluster v.
BootstrapChanged(v) == v.server # work.spec.server

\* Mutant: the bootstrap is compared only while recovery is enabled.
MutantRecoveryIntentKept ==
    view["cluster"].exists /\ Recovers(work.spec) =>
       /\ ~BootstrapChanged(view["cluster"])
       /\ view["recoveryStore"].exists => view["recoveryStore"].path = work.spec.path

\* validateRecoveryBootstrapIntent lets the pass go on.
RecoveryIntentKept ==
    view["cluster"].exists =>
       /\ ~BootstrapChanged(view["cluster"])
       /\ (Recovers(work.spec) /\ view["recoveryStore"].exists) =>
             view["recoveryStore"].path = work.spec.path

ValidateRecoveryBootstrapIntent ==
    /\ pc = "validate"
    /\ RecoveryIntentKept
    /\ Goto("backup")
    /\ UNCHANGED <<obj, protected>>

\* createOrUpdateObjectStore and createOrUpdateScheduledBackup: create the
\* resource, or adopt the project's own and bring it to the spec.
Adopted(k, v) == [Build(k, work.spec) EXCEPT !.label = v.label]

CreateOrUpdate(k) ==
    LET v == view[k]
        new == IF v.exists THEN Adopted(k, v) ELSE Build(k, work.spec)
    IN  /\ IF v.exists THEN v.label = "own" /\ (new = v \/ obj[k] = v) ELSE ~obj[k].exists
        /\ obj' = [obj EXCEPT ![k] = IF new = v THEN @ ELSE new]
        /\ UNCHANGED protected

\* Mutant: the instance label is not looked at.
MutantCleanup(k) ==
    /\ obj' = IF view[k].exists THEN [obj EXCEPT ![k] = Absent] ELSE obj
    /\ UNCHANGED protected

\* cleanupBackupResources and cleanupRecoveryResources.  Delete goes by name.
Cleanup(k) ==
    LET v == view[k]
    IN  /\ v.exists => v.label = "own"
        /\ obj' = IF v.exists THEN [obj EXCEPT ![k] = Absent] ELSE obj
        /\ UNCHANGED protected

\* reconcileBackup with backups enabled.
ReconcileObjectStore ==
    pc = "backup" /\ work.spec.backup /\ CreateOrUpdate("store") /\ Goto("schedule")

ReconcileScheduledBackup ==
    pc = "schedule" /\ CreateOrUpdate("schedule") /\ Goto("backupDone")

ReportBackup ==
    pc = "backupDone" /\ Persist([work EXCEPT !.backup = TRUE], "recovery")

\* Mutant: the pass goes on without the backup.
MutantFailBackup ==
    /\ (pc = "backup" /\ work.spec.backup) \/ pc = "schedule"
    /\ Persist([work EXCEPT !.backup = TRUE], "recovery")

\* The S3 Secret or one of the two resources is not right.
FailBackup ==
    /\ (pc = "backup" /\ work.spec.backup) \/ pc = "schedule"
    /\ Persist([work EXCEPT !.backup = TRUE], "idle")

\* reconcileBackup with backups disabled: the condition in the status decides
\* whether there is anything to clean up.
SkipBackupCleanup ==
    /\ pc = "backup" /\ ~work.spec.backup /\ ~work.backup
    /\ Goto("recovery")
    /\ UNCHANGED <<obj, protected>>

CleanupScheduledBackup ==
    pc = "backup" /\ ~work.spec.backup /\ work.backup /\ Cleanup("schedule") /\ Goto("cleanStore")

CleanupObjectStore == pc = "cleanStore" /\ Cleanup("store") /\ Goto("backupCleaned")

ReportBackupCleanup ==
    pc = "backupCleaned" /\ Persist([work EXCEPT !.backup = FALSE], "recovery")

\* reconcileRecovery.
ReconcileRecoveryStore ==
    pc = "recovery" /\ Recovers(work.spec) /\ CreateOrUpdate("recoveryStore") /\ Goto("recoveryDone")

ReportRecovery ==
    pc = "recoveryDone" /\ Persist([work EXCEPT !.recovery = TRUE], "cluster")

FailRecovery ==
    pc = "recovery" /\ Recovers(work.spec) /\ Persist([work EXCEPT !.recovery = TRUE], "idle")

SkipRecoveryCleanup ==
    /\ pc = "recovery" /\ ~Recovers(work.spec) /\ ~work.recovery
    /\ Goto("cluster")
    /\ UNCHANGED <<obj, protected>>

CleanupRecoveryStore ==
    /\ pc = "recovery" /\ ~Recovers(work.spec) /\ work.recovery
    /\ Cleanup("recoveryStore")
    /\ Goto("recoveryCleaned")

ReportRecoveryCleanup ==
    pc = "recoveryCleaned" /\ Persist([work EXCEPT !.recovery = FALSE], "cluster")

\* Mutant: the Cluster is owned by the project, as in older operators.
MutantCreateCluster ==
    /\ pc = "cluster" /\ ~view["cluster"].exists /\ ~obj["cluster"].exists
    /\ obj' = [obj EXCEPT !["cluster"] = [Build("cluster", work.spec) EXCEPT !.owner = work.inc]]
    /\ End
    /\ UNCHANGED <<project, protected, settled>>

\* reconcileCNPGCluster, the Cluster not found.
CreateCluster ==
    /\ pc = "cluster" /\ ~view["cluster"].exists /\ ~obj["cluster"].exists
    /\ obj' = [obj EXCEPT !["cluster"] = Build("cluster", work.spec)]
    /\ End
    /\ UNCHANGED <<project, protected, settled>>

\* Mutant: the requested size is added to the existing one.
MutantReconcileClusterMutableFields(v) ==
    [v EXCEPT !.owner = 0, !.size = @ + work.spec.size, !.plugin = work.spec.backup]

\* reconcileClusterMutableFields: storage and plugin follow the spec, the
\* bootstrap stays.  The owner reference goes in any case.
ReconcileClusterMutableFields(v) ==
    [v EXCEPT !.owner = 0, !.size = work.spec.size, !.plugin = work.spec.backup]

\* Mutant: a smaller size is not rejected.
MutantRejected(v) == BootstrapChanged(v)

\* recoveryBootstrapIntentChanged, or the error of reconcileStorage.
Rejected(v) == BootstrapChanged(v) \/ work.spec.size < v.size

\* reconcileCNPGCluster, the Cluster found: a rejected change still repairs the
\* metadata.
ReconcileCluster ==
    /\ pc = "cluster" /\ view["cluster"].exists /\ view["cluster"].label = "own"
    /\ LET v == view["cluster"]
           new == IF Rejected(v) THEN [v EXCEPT !.owner = 0] ELSE ReconcileClusterMutableFields(v)
       IN  /\ new # v => obj["cluster"] = v
           /\ obj' = [obj EXCEPT !["cluster"] = IF new = v THEN @ ELSE new]
           /\ settled' = (settled \/ (~Rejected(v) /\ new = v /\ fresh))
    /\ End
    /\ UNCHANGED <<project, protected>>

-----------------------------------------------------------------------------
(* Around the reconciler.                                                  *)

\* The informer of one resource catches up.
Deliver(k) ==
    /\ StaleReads
    /\ seen[k] # obj[k]
    /\ seen' = [seen EXCEPT ![k] = obj[k]]
    /\ UNCHANGED <<project, work, fresh, pc, obj, protected, settled, edits>>

EditSpec ==
    /\ project.exists
    /\ edits < MaxEdits
    /\ edits' = edits + 1
    /\ \E s \in Specs \ {project.spec} : project' = [project EXCEPT !.spec = s]
    /\ fresh' = FALSE
    /\ settled' = FALSE
    /\ UNCHANGED <<work, pc, obj, seen, protected>>

\* There is no finalizer: the project is gone at once.
DeleteProject ==
    /\ project.exists
    /\ project' = [project EXCEPT !.exists = FALSE]
    /\ fresh' = FALSE
    /\ settled' = FALSE
    /\ UNCHANGED <<work, pc, obj, seen, protected, edits>>

RecreateProject ==
    /\ ~project.exists
    /\ project.inc < MaxIncarnations
    /\ \E s \in Specs : project' = [exists |-> TRUE, inc |-> project.inc + 1, spec |-> s,
                                    backup |-> FALSE, recovery |-> FALSE]
    /\ UNCHANGED <<work, fresh, pc, obj, seen, protected, settled, edits>>

\* The garbage collector deletes what is owned by a project that is gone.
CollectGarbage(k) ==
    /\ obj[k].exists
    /\ obj[k].owner # 0
    /\ project.exists => obj[k].owner # project.inc
    /\ obj' = [obj EXCEPT ![k] = Absent]
    /\ UNCHANGED <<project, work, fresh, pc, seen, protected, settled, edits>>

Reconcile ==
    \/ Start \/ Abort \/ ReconcileDurableMetadataProtection \/ ValidateRecoveryBootstrapIntent
    \/ ReconcileObjectStore \/ ReconcileScheduledBackup \/ ReportBackup \/ FailBackup
    \/ SkipBackupCleanup \/ CleanupScheduledBackup \/ CleanupObjectStore \/ ReportBackupCleanup
    \/ ReconcileRecoveryStore \/ ReportRecovery \/ FailRecovery
    \/ SkipRecoveryCleanup \/ CleanupRecoveryStore \/ ReportRecoveryCleanup
    \/ CreateCluster \/ ReconcileCluster

Environment ==
    \/ EditSpec \/ DeleteProject \/ RecreateProject
    \/ \E k \in Kinds : Deliver(k) \/ CollectGarbage(k)

Next == Reconcile \/ Environment

Spec == Init /\ [][Next]_vars

-----------------------------------------------------------------------------
(* Properties.                                                             *)

\* Missing or foreign labels are never adopted or deleted: no step changes a
\* resource under the project's names that carries another instance label.
ForeignUntouched ==
    [][\A k \in Kinds : obj[k].exists /\ obj[k].label = "foreign" => obj'[k] = obj[k]]_vars

\* Once reconcileDurableMetadataProtection has completed one pass, nothing the
\* operator keeps can be garbage-collected: not what it adopted, not what it
\* made since, however the project is deleted and created again.
NothingToCollect == protected => \A k \in Kinds : obj[k].exists => obj[k].owner = 0

\* How a database was initialised never changes while it exists, and its
\* storage never shrinks, over any number of edits and recreated projects.
BootstrapImmutable ==
    [][obj["cluster"].exists /\ obj'["cluster"].exists =>
          /\ obj'["cluster"].server = obj["cluster"].server
          /\ obj'["cluster"].path = obj["cluster"].path
          /\ obj'["cluster"].size >= obj["cluster"].size]_vars

Own(k) == obj[k].exists /\ obj[k].label = "own"

\* "cleanup cannot remove the source ObjectStore": a Cluster bootstrapped from a
\* backup keeps the ObjectStore it came from, with the location it came from.
RecoverySourceRetained ==
    protected /\ Own("cluster") /\ Recovers(obj["cluster"]) =>
       Own("recoveryStore") /\ obj["recoveryStore"].path = obj["cluster"].path

\* A spec reconciled to the end is what the resources are.
SettledConverged ==
    settled /\ pc = "idle" =>
       /\ \A k \in Kinds : Wanted(k, project.spec) => Own(k)
       /\ obj["cluster"].server = project.spec.server
       /\ obj["cluster"].size = project.spec.size
       /\ obj["cluster"].plugin = project.spec.backup
       /\ Recovers(project.spec) => obj["recoveryStore"].path = project.spec.path
=============================================================================
