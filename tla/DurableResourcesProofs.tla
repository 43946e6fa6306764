----------------------- MODULE DurableResourcesProofs -----------------------
(***************************************************************************)
(* What DurableResources keeps for every set of specs, with and without    *)
(* cache lag, over any number of edits and recreated projects.             *)
(*                                                                         *)
(* The argument: resources with an owner reference and foreign resources   *)
(* only exist from the start, and any step that changes one leaves it with *)
(* neither.  So the cache is never behind for them (Original), the repair  *)
(* never overlooks an owner reference, and no action mistakes a foreign    *)
(* resource for the project's own.                                         *)
(*                                                                         *)
(* For convergence: a pass has achieved what it has behind it (Passed) and *)
(* what it validated stays so (Validated), both because nobody else makes  *)
(* or changes these resources.  Both need reads that are not stale.        *)
(***************************************************************************)
EXTENDS DurableResources, TLAPS

\* A resource with an owner reference or of another instance is as it was at
\* the start, so that the cache has it; it never has both.
Original ==
    \A k \in Kinds :
       /\ obj[k].owner # 0 => obj[k].exists /\ obj[k].label = "own"
       /\ obj[k].exists /\ (obj[k].owner # 0 \/ obj[k].label = "foreign") => seen[k] = obj[k]

\* The resources whose repair the pass has behind it.
Repaired ==
    CASE pc \in {"idle", "protectCluster"} -> {}
      [] pc = "protectStore" -> {"cluster"}
      [] pc = "protectRecoveryStore" -> {"cluster", "store"}
      [] pc = "protectSchedule" -> {"cluster", "store", "recoveryStore"}
      [] OTHER -> Kinds

RepairInv ==
    /\ \A k \in Repaired : obj[k].owner = 0
    /\ protected => \A k \in Kinds : obj[k].owner = 0

IInv == TypeOK /\ Original /\ RepairInv

-----------------------------------------------------------------------------
(* Types.                                                                  *)

LEMMA SpecType ==
    ASSUME NEW s \in Specs
    PROVE  /\ s.server \in Servers /\ s.path \in Paths /\ s.size \in Sizes
           /\ s.backup \in BOOLEAN
           /\ "none" \in Servers /\ "none" \in Paths /\ 0 \in Sizes
           /\ Sizes \subseteq Nat
  BY ConstantsAssumption DEF Servers, Paths, Sizes

LEMMA AbsentType == Absent \in Objects /\ Absent.owner = 0 /\ ~Absent.exists
  <1>1. 0 \in 0..MaxIncarnations
    BY ConstantsAssumption
  <1> QED
    BY <1>1 DEF Absent, Objects, Servers, Paths, Sizes

LEMMA BuildType ==
    ASSUME NEW k \in Kinds, NEW s \in Specs
    PROVE  /\ Build(k, s) \in Objects
           /\ Build(k, s).owner = 0
           /\ Build(k, s).label = "own"
           /\ Build(k, s).exists
  <1>1. 0 \in 0..MaxIncarnations
    BY ConstantsAssumption
  <1> QED
    BY <1>1, SpecType DEF Build, Absent, Objects

\* The cache has every resource a step could get wrong.
LEMMA ViewFacts ==
    ASSUME IInv, NEW k \in Kinds
    PROVE  /\ view[k] \in Objects
           /\ obj[k] \in Objects
           /\ obj[k].exists /\ (obj[k].owner # 0 \/ obj[k].label = "foreign") => view[k] = obj[k]
  BY DEF IInv, TypeOK, Original, view

-----------------------------------------------------------------------------
(* What a step may do to a resource.                                       *)

\* It makes it the project's own, without owner reference, and it was not
\* somebody else's before.
Replaced(k) ==
    /\ obj'[k].owner = 0
    /\ obj'[k].label = "own"
    /\ obj[k].exists => obj[k].label = "own"

\* A Cluster that is there before and after keeps its bootstrap and its storage.
ClusterKept ==
    obj["cluster"].exists /\ obj'["cluster"].exists =>
       /\ obj'["cluster"].server = obj["cluster"].server
       /\ obj'["cluster"].path = obj["cluster"].path
       /\ obj'["cluster"].size >= obj["cluster"].size

ObjectStep ==
    /\ obj' \in [Kinds -> Objects]
    /\ \A k \in Kinds : obj'[k] = obj[k] \/ Replaced(k)
    /\ ClusterKept

LEMMA UnchangedObjects ==
    ASSUME IInv, obj' = obj
    PROVE  ObjectStep
  <1>1. obj["cluster"].size \in Nat
    BY SpecType, ConstantsAssumption DEF IInv, TypeOK, Kinds, Objects, Sizes
  <1> QED
    BY <1>1 DEF IInv, TypeOK, ObjectStep, ClusterKept

\* A step that writes one resource other than the Cluster.
LEMMA OneObject ==
    ASSUME IInv, NEW k \in Kinds \ {"cluster"}, NEW new \in Objects,
           obj' = [obj EXCEPT ![k] = new],
           new.owner = 0, new.label = "own", obj[k].exists => obj[k].label = "own"
    PROVE  ObjectStep
  <1>1. obj["cluster"].size \in Nat
    BY SpecType, ConstantsAssumption DEF IInv, TypeOK, Kinds, Objects, Sizes
  <1>2. obj' \in [Kinds -> Objects]
    BY DEF IInv, TypeOK
  <1>3. \A j \in Kinds : obj'[j] = obj[j] \/ Replaced(j)
    BY DEF IInv, TypeOK, Replaced
  <1>4. ClusterKept
    BY <1>1 DEF IInv, TypeOK, ClusterKept, Kinds
  <1> QED
    BY <1>2, <1>3, <1>4 DEF ObjectStep

LEMMA CreateOrUpdateStep ==
    ASSUME IInv, NEW k \in Kinds \ {"cluster"}, CreateOrUpdate(k)
    PROVE  ObjectStep
  <1> DEFINE new == IF view[k].exists THEN Adopted(k, view[k]) ELSE Build(k, work.spec)
  <1>1. work.spec \in Specs
    BY DEF IInv, TypeOK, Projects
  <1>2. view[k] \in Objects /\ obj[k] \in Objects
    BY ViewFacts
  <1>3. CASE obj' = obj
    BY <1>3, UnchangedObjects
  <1>4. CASE obj' # obj
    <2>1. obj' = [obj EXCEPT ![k] = new]
      BY <1>4 DEF CreateOrUpdate, IInv, TypeOK
    <2>2. view[k].exists => view[k].label = "own" /\ obj[k] = view[k]
      BY <1>4 DEF CreateOrUpdate, IInv, TypeOK
    <2>3. ~view[k].exists => ~obj[k].exists
      BY DEF CreateOrUpdate
    <2>4. new \in Objects /\ new.owner = 0 /\ new.label = "own"
      BY <1>1, <1>2, <2>2, BuildType DEF Adopted, Objects
    <2> QED
      BY <2>1, <2>2, <2>3, <2>4, OneObject
  <1> QED
    BY <1>3, <1>4

LEMMA CleanupStep ==
    ASSUME IInv, NEW k \in Kinds \ {"cluster"}, Cleanup(k)
    PROVE  ObjectStep
  <1>1. CASE ~view[k].exists
    BY <1>1, UnchangedObjects DEF Cleanup
  <1>2. CASE view[k].exists
    <2>1. obj' = [obj EXCEPT ![k] = Absent]
      BY <1>2 DEF Cleanup
    <2>2. obj[k].exists => obj[k].label = "own"
      BY <1>2, ViewFacts DEF Cleanup, Objects
    <2> QED
      BY <2>1, <2>2, AbsentType, OneObject DEF Absent
  <1> QED
    BY <1>1, <1>2

LEMMA ProtectionStep ==
    ASSUME IInv, ReconcileDurableMetadataProtection
    PROVE  /\ ObjectStep
           /\ obj'[ProtectAt[pc]].owner = 0
  <1> DEFINE k == ProtectAt[pc]
             repairs == view[k].exists /\ view[k].label = "own" /\ view[k].owner # 0
  <1>1. k \in Kinds
    BY DEF ReconcileDurableMetadataProtection, ProtectAt, Kinds
  <1>2. view[k] \in Objects /\ obj[k] \in Objects
    BY <1>1, ViewFacts
  <1>3. CASE ~repairs
    <2>1. obj' = obj
      BY <1>3 DEF ReconcileDurableMetadataProtection
    <2>2. obj[k].owner = 0
      BY <1>1, <1>3, ViewFacts DEF IInv, Original
    <2> QED
      BY <2>1, <2>2, UnchangedObjects
  <1>4. CASE repairs
    <2>1. obj[k] = view[k] /\ obj' = [obj EXCEPT ![k].owner = 0]
      BY <1>4 DEF ReconcileDurableMetadataProtection
    <2>2. obj' = [obj EXCEPT ![k] = [obj[k] EXCEPT !.owner = 0]]
      BY <2>1 DEF IInv, TypeOK
    <2>3. [obj[k] EXCEPT !.owner = 0] \in Objects
      BY <1>2, ConstantsAssumption DEF Objects
    <2>4. obj["cluster"] \in Objects /\ obj["cluster"].size \in Nat
      BY SpecType, ConstantsAssumption DEF IInv, TypeOK, Kinds, Objects, Sizes
    <2>5. obj' \in [Kinds -> Objects]
      BY <1>1, <2>2, <2>3 DEF IInv, TypeOK
    <2>6. obj'[k].owner = 0 /\ obj'[k].label = "own" /\ obj[k].label = "own"
      BY <1>1, <1>2, <1>4, <2>1, <2>2 DEF IInv, TypeOK, Objects
    <2>7. \A j \in Kinds : obj'[j] = obj[j] \/ Replaced(j)
      BY <1>1, <2>2, <2>6 DEF IInv, TypeOK, Replaced
    <2>8. ClusterKept
      <3>1. obj'["cluster"].server = obj["cluster"].server
            /\ obj'["cluster"].path = obj["cluster"].path
            /\ obj'["cluster"].size = obj["cluster"].size
        BY <1>1, <1>2, <2>2, <2>4 DEF IInv, TypeOK, Kinds, Objects
      <3> QED
        BY <2>4, <3>1 DEF ClusterKept
    <2> QED
      BY <2>5, <2>6, <2>7, <2>8 DEF ObjectStep
  <1> QED
    BY <1>3, <1>4

\* A step that writes the Cluster.
LEMMA ClusterStep ==
    ASSUME IInv, NEW new \in Objects,
           obj' = [obj EXCEPT !["cluster"] = new],
           new.owner = 0, new.label = "own",
           obj["cluster"].exists =>
              /\ obj["cluster"].label = "own"
              /\ new.exists => /\ new.server = obj["cluster"].server
                               /\ new.path = obj["cluster"].path
                               /\ new.size >= obj["cluster"].size
    PROVE  ObjectStep
  <1>1. obj' \in [Kinds -> Objects]
    BY DEF IInv, TypeOK
  <1>2. \A j \in Kinds : obj'[j] = obj[j] \/ Replaced(j)
    BY DEF IInv, TypeOK, Replaced, Kinds
  <1>3. ClusterKept
    BY DEF IInv, TypeOK, ClusterKept, Kinds
  <1> QED
    BY <1>1, <1>2, <1>3 DEF ObjectStep

LEMMA CreateClusterStep ==
    ASSUME IInv, CreateCluster
    PROVE  ObjectStep
  <1>1. work.spec \in Specs /\ "cluster" \in Kinds
    BY DEF IInv, TypeOK, Projects, Kinds
  <1> QED
    BY <1>1, BuildType, ClusterStep DEF CreateCluster

LEMMA ReconcileClusterStep ==
    ASSUME IInv, ReconcileCluster
    PROVE  ObjectStep
  <1> DEFINE v == view["cluster"]
             new == IF Rejected(v) THEN [v EXCEPT !.owner = 0] ELSE ReconcileClusterMutableFields(v)
  <1>1. work.spec \in Specs /\ "cluster" \in Kinds
    BY DEF IInv, TypeOK, Projects, Kinds
  <1>2. v \in Objects /\ v.label = "own" /\ v.size \in Nat
    BY <1>1, ViewFacts, SpecType DEF ReconcileCluster, Objects
  <1>3. work.spec.size \in Nat /\ work.spec.size \in Sizes /\ work.spec.backup \in BOOLEAN
    BY <1>1, SpecType
  <1>4. CASE new = v
    <2>1. obj' = obj
      BY <1>4 DEF ReconcileCluster, IInv, TypeOK
    <2> QED
      BY <2>1, UnchangedObjects
  <1>5. CASE new # v
    <2>1. obj["cluster"] = v /\ obj' = [obj EXCEPT !["cluster"] = new]
      BY <1>5 DEF ReconcileCluster
    <2>2. 0 \in 0..MaxIncarnations
      BY ConstantsAssumption
    <2>3. new \in Objects /\ new.owner = 0 /\ new.label = "own"
          /\ new.server = v.server /\ new.path = v.path
      BY <1>2, <1>3, <2>2 DEF ReconcileClusterMutableFields, Objects
    <2>4. new.size >= v.size
      <3>1. CASE Rejected(v)
        BY <1>2, <3>1 DEF Objects
      <3>2. CASE ~Rejected(v)
        <4>1. new.size = work.spec.size
          BY <1>2, <3>2 DEF ReconcileClusterMutableFields, Objects
        <4> QED
          BY <1>2, <1>3, <3>2, <4>1 DEF Rejected
      <3> QED
        BY <3>1, <3>2
    <2> QED
      BY <1>2, <2>1, <2>3, <2>4, ClusterStep
  <1> QED
    BY <1>4, <1>5

\* The garbage collector needs an owner reference, which nothing foreign has.
LEMMA CollectGarbageStep ==
    ASSUME IInv, NEW k \in Kinds, CollectGarbage(k)
    PROVE  ObjectStep
  <1>1. obj' = [obj EXCEPT ![k] = Absent] /\ obj[k].label = "own"
    BY DEF CollectGarbage, IInv, Original
  <1>2. Absent \in Objects /\ Absent.owner = 0 /\ Absent.label = "own" /\ ~Absent.exists
    BY AbsentType DEF Absent
  <1>3. CASE k = "cluster"
    BY <1>1, <1>2, <1>3, ClusterStep
  <1>4. CASE k # "cluster"
    BY <1>1, <1>2, <1>4, OneObject
  <1> QED
    BY <1>3, <1>4

\* What every step may do to the resources and to the caches.
LEMMA NextObjects ==
    ASSUME IInv, [Next]_vars
    PROVE  /\ ObjectStep
           /\ seen' \in [Kinds -> Objects]
           /\ \A k \in Kinds : seen'[k] = seen[k] \/ (seen'[k] = obj[k] /\ obj' = obj)
  <1> USE DEF IInv, TypeOK
  <1>1. CASE Start \/ Abort \/ ValidateRecoveryBootstrapIntent \/ SkipBackupCleanup
             \/ SkipRecoveryCleanup \/ EditSpec \/ DeleteProject \/ RecreateProject
             \/ UNCHANGED vars
    <2>1. obj' = obj /\ seen' = seen
      BY <1>1 DEF Start, Abort, End, ValidateRecoveryBootstrapIntent, SkipBackupCleanup,
                  SkipRecoveryCleanup, Goto, EditSpec, DeleteProject, RecreateProject, vars
    <2> QED
      BY <2>1, UnchangedObjects
  <1>2. CASE ReportBackup \/ FailBackup \/ ReportBackupCleanup \/ ReportRecovery
             \/ FailRecovery \/ ReportRecoveryCleanup
    <2>1. obj' = obj /\ seen' = seen
      BY <1>2 DEF ReportBackup, FailBackup, ReportBackupCleanup, ReportRecovery,
                  FailRecovery, ReportRecoveryCleanup, Persist
    <2> QED
      BY <2>1, UnchangedObjects
  <1>3. CASE ReconcileDurableMetadataProtection
    BY <1>3, ProtectionStep DEF ReconcileDurableMetadataProtection, Goto
  <1>4. CASE ReconcileObjectStore \/ ReconcileScheduledBackup \/ ReconcileRecoveryStore
    <2>1. seen' = seen
      BY <1>4 DEF ReconcileObjectStore, ReconcileScheduledBackup, ReconcileRecoveryStore, Goto
    <2>2. \E k \in Kinds \ {"cluster"} : CreateOrUpdate(k)
      BY <1>4 DEF ReconcileObjectStore, ReconcileScheduledBackup, ReconcileRecoveryStore, Kinds
    <2> QED
      BY <2>1, <2>2, CreateOrUpdateStep
  <1>5. CASE CleanupScheduledBackup \/ CleanupObjectStore \/ CleanupRecoveryStore
    <2>1. seen' = seen
      BY <1>5 DEF CleanupScheduledBackup, CleanupObjectStore, CleanupRecoveryStore, Goto
    <2>2. \E k \in Kinds \ {"cluster"} : Cleanup(k)
      BY <1>5 DEF CleanupScheduledBackup, CleanupObjectStore, CleanupRecoveryStore, Kinds
    <2> QED
      BY <2>1, <2>2, CleanupStep
  <1>6. CASE CreateCluster
    BY <1>6, CreateClusterStep DEF CreateCluster, End
  <1>7. CASE ReconcileCluster
    BY <1>7, ReconcileClusterStep DEF ReconcileCluster, End
  <1>8. ASSUME NEW k \in Kinds, CollectGarbage(k)
        PROVE  /\ ObjectStep
               /\ seen' = seen
    BY <1>8, CollectGarbageStep DEF CollectGarbage
  <1>9. ASSUME NEW k \in Kinds, Deliver(k)
        PROVE  /\ ObjectStep
               /\ seen' \in [Kinds -> Objects]
               /\ \A j \in Kinds : seen'[j] = seen[j] \/ (seen'[j] = obj[j] /\ obj' = obj)
    BY <1>9, UnchangedObjects DEF Deliver
  <1> QED
    BY <1>1, <1>2, <1>3, <1>4, <1>5, <1>6, <1>7, <1>8, <1>9
    DEF Next, Reconcile, Environment

-----------------------------------------------------------------------------
(* The invariant.                                                          *)

LEMMA InitIInv == Init => IInv
  <1> SUFFICES ASSUME Init PROVE IInv
    OBVIOUS
  <1>1. PICK s \in Specs, foreign \in SUBSET Kinds, upgraded \in BOOLEAN :
           InitFrom(s, foreign, upgraded)
    BY DEF Init
  <1> USE DEF InitFrom
  <1>2. 1 \in 0..MaxIncarnations /\ 1 \in Incarnations /\ 0 \in 0..MaxEdits
    BY ConstantsAssumption DEF Incarnations
  <1>3. \A k \in Kinds : /\ obj[k] \in Objects
                         /\ obj[k].owner # 0 => obj[k].exists /\ obj[k].label = "own"
    <2> TAKE k \in Kinds
    <2>1. Build(k, s) \in Objects /\ Build(k, s).owner = 0 /\ Build(k, s).label = "own"
          /\ Build(k, s).exists
      BY BuildType
    <2>2. \/ obj[k] = [Build(k, s) EXCEPT !.label = "foreign"]
          \/ obj[k] = [Build(k, s) EXCEPT !.owner = 1]
          \/ obj[k] = Absent
      BY <1>1, Zenon
    <2> QED
      BY <1>2, <2>1, <2>2, AbsentType DEF Objects
  <1>4. obj \in [Kinds -> Objects] /\ seen = obj
    <2>1. \E f \in [Kinds -> Objects] : obj = f
      <3> DEFINE f == [k \in Kinds |-> obj[k]]
      <3>1. f \in [Kinds -> Objects]
        BY <1>3
      <3>2. obj = f
        BY <1>1
      <3> QED
        BY <3>1, <3>2
    <2> QED
      BY <1>1, <2>1
  <1>5. project \in Projects
    BY <1>1, <1>2 DEF Projects
  <1>6. TypeOK
    BY <1>1, <1>2, <1>4, <1>5 DEF TypeOK
  <1>7. Original
    BY <1>3, <1>4 DEF Original
  <1>8. RepairInv
    BY <1>1 DEF RepairInv, Repaired
  <1> QED
    BY <1>6, <1>7, <1>8 DEF IInv

\* The variables other than the resources and their caches.
RestType ==
    /\ project \in Projects /\ work \in Projects
    /\ fresh \in BOOLEAN
    /\ pc \in {"idle", "protectCluster", "protectStore", "protectRecoveryStore",
               "protectSchedule", "validate", "backup", "schedule", "backupDone",
               "cleanStore", "backupCleaned", "recovery", "recoveryDone",
               "recoveryCleaned", "cluster"}
    /\ protected \in BOOLEAN /\ settled \in BOOLEAN
    /\ edits \in 0..MaxEdits

LEMMA GotoType ==
    ASSUME RestType, NEW next, Goto(next), protected' = protected,
           next \in {"backup", "schedule", "backupDone", "cleanStore", "backupCleaned",
                     "recovery", "recoveryDone", "recoveryCleaned", "cluster"}
    PROVE  RestType'
  BY DEF RestType, Goto

LEMMA PersistType ==
    ASSUME RestType, NEW w \in Projects, NEW next \in {"idle", "recovery", "cluster"},
           Persist(w, next)
    PROVE  RestType'
  BY DEF RestType, Persist

LEMMA ReportType ==
    ASSUME RestType, NEW b \in BOOLEAN
    PROVE  /\ [work EXCEPT !.backup = b] \in Projects
           /\ [work EXCEPT !.recovery = b] \in Projects
  BY DEF RestType, Projects

LEMMA NextRestType ==
    ASSUME RestType, [Next]_vars
    PROVE  RestType'
  <1>1. CASE Start
    BY <1>1 DEF RestType, Start
  <1>2. CASE Abort
    BY <1>2 DEF RestType, Abort, End
  <1>3. CASE ReconcileDurableMetadataProtection
    <2>1. pc' \in {"protectStore", "protectRecoveryStore", "protectSchedule", "validate"}
      BY <1>3 DEF ReconcileDurableMetadataProtection, Goto, ProtectAt, ProtectNext
    <2>2. protected' \in BOOLEAN
      BY <1>3, Zenon DEF ReconcileDurableMetadataProtection
    <2> QED
      BY <1>3, <2>1, <2>2 DEF RestType, ReconcileDurableMetadataProtection, Goto
  <1>4. CASE ValidateRecoveryBootstrapIntent \/ SkipBackupCleanup \/ SkipRecoveryCleanup
    BY <1>4, GotoType
    DEF ValidateRecoveryBootstrapIntent, SkipBackupCleanup, SkipRecoveryCleanup
  <1>5. CASE ReconcileObjectStore \/ ReconcileScheduledBackup \/ ReconcileRecoveryStore
    BY <1>5, GotoType
    DEF ReconcileObjectStore, ReconcileScheduledBackup, ReconcileRecoveryStore, CreateOrUpdate
  <1>6. CASE CleanupScheduledBackup \/ CleanupObjectStore \/ CleanupRecoveryStore
    BY <1>6, GotoType
    DEF CleanupScheduledBackup, CleanupObjectStore, CleanupRecoveryStore, Cleanup
  <1>7. CASE ReportBackup \/ FailBackup \/ ReportBackupCleanup
    BY <1>7, ReportType, PersistType DEF ReportBackup, FailBackup, ReportBackupCleanup
  <1>8. CASE ReportRecovery \/ FailRecovery \/ ReportRecoveryCleanup
    BY <1>8, ReportType, PersistType DEF ReportRecovery, FailRecovery, ReportRecoveryCleanup
  <1>9. CASE CreateCluster
    BY <1>9 DEF RestType, CreateCluster, End
  <1>10. CASE ReconcileCluster
    <2>1. settled' \in BOOLEAN
      BY <1>10, Zenon DEF ReconcileCluster
    <2> QED
      BY <1>10, <2>1 DEF RestType, ReconcileCluster, End
  <1>11. CASE EditSpec
    <2>1. project' \in Projects
      BY <1>11 DEF RestType, EditSpec, Projects
    <2>2. edits' \in 0..MaxEdits
      BY <1>11, ConstantsAssumption DEF RestType, EditSpec
    <2> QED
      BY <1>11, <2>1, <2>2 DEF RestType, EditSpec
  <1>12. CASE DeleteProject
    <2>1. project' \in Projects
      BY <1>12 DEF RestType, DeleteProject, Projects
    <2> QED
      BY <1>12, <2>1 DEF RestType, DeleteProject
  <1>13. CASE RecreateProject
    <2>1. project.inc + 1 \in Incarnations
      BY <1>13, ConstantsAssumption DEF RestType, RecreateProject, Projects, Incarnations
    <2>2. project' \in Projects
      BY <1>13, <2>1 DEF RecreateProject, Projects
    <2> QED
      BY <1>13, <2>2 DEF RestType, RecreateProject
  <1>14. CASE \E k \in Kinds : Deliver(k) \/ CollectGarbage(k)
    BY <1>14 DEF RestType, Deliver, CollectGarbage
  <1>15. CASE UNCHANGED vars
    BY <1>15 DEF RestType, vars
  <1> QED
    BY <1>1, <1>2, <1>3, <1>4, <1>5, <1>6, <1>7, <1>8, <1>9, <1>10, <1>11, <1>12, <1>13,
       <1>14, <1>15 DEF Next, Reconcile, Environment

\* Where the repair is after a step: no further than before, or one resource
\* further, and then that one has no owner reference any more.
LEMMA RepairProgress ==
    ASSUME IInv, [Next]_vars
    PROVE  /\ \A k \in Repaired' : k \in Repaired \/ obj'[k].owner = 0
           /\ protected' => protected \/ \A k \in Kinds : k \in Repaired \/ obj'[k].owner = 0
  <1>1. CASE ReconcileDurableMetadataProtection
    <2>1. obj'[ProtectAt[pc]].owner = 0
      BY <1>1, ProtectionStep
    <2>2. pc' = ProtectNext[pc] /\ pc \in DOMAIN ProtectAt
          /\ protected' = (protected \/ pc = "protectSchedule")
      BY <1>1 DEF ReconcileDurableMetadataProtection, Goto
    <2>3. CASE pc = "protectCluster"
      BY <2>1, <2>2, <2>3 DEF Repaired, ProtectAt, ProtectNext
    <2>4. CASE pc = "protectStore"
      BY <2>1, <2>2, <2>4 DEF Repaired, ProtectAt, ProtectNext
    <2>5. CASE pc = "protectRecoveryStore"
      BY <2>1, <2>2, <2>5 DEF Repaired, ProtectAt, ProtectNext
    <2>6. CASE pc = "protectSchedule"
      BY <2>1, <2>2, <2>6 DEF Repaired, ProtectAt, ProtectNext, Kinds
    <2> QED
      BY <2>2, <2>3, <2>4, <2>5, <2>6 DEF ProtectAt
  <1>2. CASE Start \/ Abort \/ CreateCluster \/ ReconcileCluster
    <2>1. pc' \in {"idle", "protectCluster"} /\ protected' = protected
      BY <1>2 DEF Start, Abort, End, CreateCluster, ReconcileCluster
    <2> QED
      BY <2>1 DEF Repaired
  <1>3. CASE ValidateRecoveryBootstrapIntent \/ SkipBackupCleanup \/ SkipRecoveryCleanup
             \/ ReconcileObjectStore \/ ReconcileScheduledBackup \/ ReconcileRecoveryStore
             \/ CleanupScheduledBackup \/ CleanupObjectStore \/ CleanupRecoveryStore
             \/ ReportBackup \/ FailBackup \/ ReportBackupCleanup
             \/ ReportRecovery \/ FailRecovery \/ ReportRecoveryCleanup
    <2>1. pc \in {"validate", "backup", "schedule", "backupDone", "cleanStore",
                  "backupCleaned", "recovery", "recoveryDone", "recoveryCleaned"}
      BY <1>3
      DEF ValidateRecoveryBootstrapIntent, SkipBackupCleanup, SkipRecoveryCleanup,
          ReconcileObjectStore, ReconcileScheduledBackup, ReconcileRecoveryStore,
          CleanupScheduledBackup, CleanupObjectStore, CleanupRecoveryStore,
          ReportBackup, FailBackup, ReportBackupCleanup,
          ReportRecovery, FailRecovery, ReportRecoveryCleanup
    <2>2. protected' = protected
      BY <1>3
      DEF ValidateRecoveryBootstrapIntent, SkipBackupCleanup, SkipRecoveryCleanup,
          ReconcileObjectStore, ReconcileScheduledBackup, ReconcileRecoveryStore, CreateOrUpdate,
          CleanupScheduledBackup, CleanupObjectStore, CleanupRecoveryStore, Cleanup,
          ReportBackup, FailBackup, ReportBackupCleanup,
          ReportRecovery, FailRecovery, ReportRecoveryCleanup, Persist
    <2>3. Repaired = Kinds /\ Repaired' \subseteq Kinds
      BY <2>1 DEF Repaired, Kinds
    <2> QED
      BY <2>2, <2>3
  <1>4. CASE Environment \/ UNCHANGED vars
    <2>1. pc' = pc /\ protected' = protected
      BY <1>4 DEF Environment, EditSpec, DeleteProject, RecreateProject, Deliver,
                  CollectGarbage, vars
    <2> QED
      BY <2>1 DEF Repaired
  <1> QED
    BY <1>1, <1>2, <1>3, <1>4 DEF Next, Reconcile

LEMMA NextIInv == IInv /\ [Next]_vars => IInv'
  <1> SUFFICES ASSUME IInv, [Next]_vars PROVE IInv'
    OBVIOUS
  <1>1. ObjectStep
        /\ seen' \in [Kinds -> Objects]
        /\ \A k \in Kinds : seen'[k] = seen[k] \/ (seen'[k] = obj[k] /\ obj' = obj)
    BY NextObjects
  <1>2. TypeOK'
    <2>1. RestType'
      BY NextRestType DEF IInv, TypeOK, RestType
    <2> QED
      BY <1>1, <2>1 DEF TypeOK, RestType, ObjectStep
  <1>3. Original'
    <2> SUFFICES ASSUME NEW k \in Kinds
                 PROVE  /\ obj'[k].owner # 0 => obj'[k].exists /\ obj'[k].label = "own"
                        /\ obj'[k].exists /\ (obj'[k].owner # 0 \/ obj'[k].label = "foreign")
                              => seen'[k] = obj'[k]
      BY DEF Original
    <2>1. CASE Replaced(k)
      BY <2>1 DEF Replaced
    <2>2. CASE obj'[k] = obj[k]
      BY <1>1, <2>2 DEF IInv, Original
    <2> QED
      BY <1>1, <2>1, <2>2 DEF ObjectStep
  <1>4. RepairInv'
    <2>1. \A k \in Kinds : obj[k].owner = 0 => obj'[k].owner = 0
      BY <1>1 DEF ObjectStep, Replaced
    <2>2. Repaired \subseteq Kinds
      BY DEF Repaired, Kinds
    <2>3. \A k \in Repaired : obj'[k].owner = 0
      BY <2>1, <2>2 DEF IInv, RepairInv
    <2>4. protected => \A k \in Kinds : obj'[k].owner = 0
      BY <2>1 DEF IInv, RepairInv
    <2> QED
      BY <2>3, <2>4, RepairProgress DEF RepairInv
  <1> QED
    BY <1>2, <1>3, <1>4 DEF IInv

-----------------------------------------------------------------------------
(* Theorems.                                                               *)

\* The invariant the others rest on.
THEOREM Invariance == Spec => []IInv
  <1> QED
    BY InitIInv, NextIInv, PTL DEF Spec

\* Every variable keeps its type: the resources' sizes, servers and paths are
\* those of some spec, over any number of edits and projects.
THEOREM TypeCorrect == Spec => []TypeOK
  <1>1. IInv => TypeOK
    BY DEF IInv
  <1> QED
    BY <1>1, Invariance, PTL

\* One completed pass of reconcileDurableMetadataProtection protects every
\* resource for good, even though the pass reads lagging caches and may be
\* interleaved with edits, deletions, recreations and the garbage collector.
THEOREM NothingCollected == Spec => []NothingToCollect
  <1>1. IInv => NothingToCollect
    BY DEF IInv, RepairInv, NothingToCollect
  <1> QED
    BY <1>1, Invariance, PTL

\* No step of the operator or of the garbage collector changes a resource that
\* carries another instance label, whatever the caches show.
THEOREM ForeignKept == Spec => ForeignUntouched
  <1>1. IInv /\ [Next]_vars =>
           [\A k \in Kinds : obj[k].exists /\ obj[k].label = "foreign" => obj'[k] = obj[k]]_vars
    BY NextObjects DEF ObjectStep, Replaced
  <1> QED
    BY <1>1, Invariance, PTL DEF Spec, ForeignUntouched

\* A database keeps the bootstrap it was made with and never loses storage, for
\* every set of specs and over any sequence of edits.
THEOREM BootstrapKept == Spec => BootstrapImmutable
  <1>1. IInv /\ [Next]_vars =>
           [obj["cluster"].exists /\ obj'["cluster"].exists =>
              /\ obj'["cluster"].server = obj["cluster"].server
              /\ obj'["cluster"].path = obj["cluster"].path
              /\ obj'["cluster"].size >= obj["cluster"].size]_vars
    BY NextObjects DEF ObjectStep, ClusterKept
  <1> QED
    BY <1>1, Invariance, PTL DEF Spec, BootstrapImmutable

-----------------------------------------------------------------------------
(* Convergence, when the reconciler reads what is stored.                  *)

\* A status write that would be accepted is one for the stored project.
Fresh == fresh = TRUE => project = work /\ project.exists = TRUE

\* What the pass has behind it, it has achieved for the spec it works on.
Passed ==
    /\ pc \in {"schedule", "backupDone"} => work.spec.backup = TRUE /\ Own("store")
    /\ pc = "backupDone" => Own("schedule")
    /\ pc \in {"cleanStore", "backupCleaned"} => work.spec.backup = FALSE
    /\ pc \in {"recovery", "recoveryDone", "recoveryCleaned", "cluster"}
          /\ work.spec.backup = TRUE => Own("store") /\ Own("schedule")
    /\ pc = "recoveryDone" => Recovers(work.spec)
    /\ pc = "recoveryCleaned" => ~Recovers(work.spec)
    /\ pc \in {"recoveryDone", "cluster"} /\ Recovers(work.spec) =>
          Own("recoveryStore") /\ obj["recoveryStore"].path = work.spec.path

Converged ==
    /\ \A k \in Kinds : Wanted(k, project.spec) => Own(k)
    /\ obj["cluster"].server = project.spec.server
    /\ obj["cluster"].size = project.spec.size
    /\ obj["cluster"].plugin = project.spec.backup
    /\ Recovers(project.spec) => obj["recoveryStore"].path = project.spec.path

\* From then on a pass works on that spec, and leaves everything as it is.
Settled ==
    settled = TRUE =>
       /\ project.exists = TRUE
       /\ pc = "idle" \/ work.spec = project.spec
       /\ Converged
       /\ \A k \in Kinds : obj[k].owner = 0

\* What validateRecoveryBootstrapIntent has compared stays so: nobody but the
\* pass makes a Cluster or changes the location of the source.
Validated ==
    /\ pc \in {"backup", "schedule", "backupDone", "cleanStore", "backupCleaned", "recovery",
               "recoveryDone", "recoveryCleaned", "cluster"}
          /\ obj["cluster"].exists => obj["cluster"].server = work.spec.server
    /\ pc \in {"backup", "schedule", "backupDone", "cleanStore", "backupCleaned", "recovery"}
          /\ obj["cluster"].exists /\ Recovers(work.spec) /\ obj["recoveryStore"].exists
             => obj["recoveryStore"].path = work.spec.path

\* The source of a Cluster is there, with or without a repair.
Source ==
    /\ \A k \in Kinds : obj[k].owner = 0
    /\ Own("cluster") /\ Recovers(obj["cluster"]) =>
          Own("recoveryStore") /\ obj["recoveryStore"].path = obj["cluster"].path

Convergence == IInv /\ Fresh /\ Passed /\ Settled

Retention == Convergence /\ Validated /\ Source

\* What the actions do to the resources.
LEMMA CreateOrUpdateDoes ==
    ASSUME IInv, StaleReads = FALSE, NEW k \in Kinds \ {"cluster"}, CreateOrUpdate(k)
    PROVE  /\ \A j \in Kinds : j # k => obj'[j] = obj[j]
           /\ obj'[k].exists /\ obj'[k].label = "own"
           /\ k = "recoveryStore" => obj'[k].path = work.spec.path
  <1>1. work.spec \in Specs /\ view = obj /\ obj \in [Kinds -> Objects]
    BY DEF IInv, TypeOK, Projects, view
  <1>2. /\ Build(k, work.spec) \in Objects /\ Build(k, work.spec).exists
        /\ Build(k, work.spec).label = "own"
    BY <1>1, BuildType
  <1>3. k = "recoveryStore" => Build(k, work.spec).path = work.spec.path
    BY DEF Build, Absent
  <1>4. CASE obj[k].exists
    <2>1. obj[k].label = "own" /\ obj' = [obj EXCEPT ![k] = Adopted(k, obj[k])]
      BY <1>1, <1>4 DEF CreateOrUpdate
    <2>2. Adopted(k, obj[k]) = Build(k, work.spec)
      BY <1>2, <2>1 DEF Adopted, Objects
    <2> QED
      BY <1>1, <1>2, <1>3, <2>1, <2>2
  <1>5. CASE ~obj[k].exists
    <2>1. obj'[k] = Build(k, work.spec) /\ \A j \in Kinds : j # k => obj'[j] = obj[j]
      BY <1>1, <1>5 DEF CreateOrUpdate
    <2> QED
      BY <1>2, <1>3, <2>1
  <1> QED
    BY <1>4, <1>5

LEMMA CleanupDoes ==
    ASSUME IInv, NEW k \in Kinds, Cleanup(k)
    PROVE  \A j \in Kinds : j # k => obj'[j] = obj[j]
  BY DEF Cleanup, IInv, TypeOK

\* The repair removes the owner and nothing else.
LEMMA ProtectionDoes ==
    ASSUME IInv, ReconcileDurableMetadataProtection
    PROVE  \A j \in Kinds : /\ obj'[j].exists = obj[j].exists /\ obj'[j].label = obj[j].label
                            /\ obj'[j].server = obj[j].server /\ obj'[j].path = obj[j].path
                            /\ obj'[j].size = obj[j].size /\ obj'[j].plugin = obj[j].plugin
  <1> DEFINE k == ProtectAt[pc]
  <1>1. obj \in [Kinds -> Objects] /\ k \in Kinds
    BY DEF IInv, TypeOK, ReconcileDurableMetadataProtection, ProtectAt, Kinds
  <1>2. CASE obj' = obj
    BY <1>2
  <1>3. CASE obj' = [obj EXCEPT ![k].owner = 0]
    <2>1. obj' = [obj EXCEPT ![k] = [obj[k] EXCEPT !.owner = 0]]
      BY <1>3, <1>1
    <2>2. obj'[k] = [obj[k] EXCEPT !.owner = 0] /\ obj[k] \in Objects
      BY <1>1, <2>1
    <2>3. \A j \in Kinds : j # k => obj'[j] = obj[j]
      BY <1>1, <2>1
    <2> QED
      BY <2>2, <2>3 DEF Objects
  <1> QED
    BY <1>2, <1>3 DEF ReconcileDurableMetadataProtection

LEMMA CreateClusterDoes ==
    ASSUME IInv, CreateCluster
    PROVE  /\ \A j \in Kinds : j # "cluster" => obj'[j] = obj[j]
           /\ ~obj["cluster"].exists
           /\ obj'["cluster"].server = work.spec.server
           /\ obj'["cluster"].path = work.spec.path
  <1>1. obj' = [obj EXCEPT !["cluster"] = Build("cluster", work.spec)] /\ ~obj["cluster"].exists
    BY DEF CreateCluster
  <1>2. Build("cluster", work.spec).server = work.spec.server
        /\ Build("cluster", work.spec).path = work.spec.path
    BY DEF Build, Absent
  <1> QED
    BY <1>1, <1>2 DEF IInv, TypeOK, Kinds

LEMMA ReconcileClusterDoes ==
    ASSUME IInv, StaleReads = FALSE, ReconcileCluster
    PROVE  /\ \A j \in Kinds : j # "cluster" => obj'[j] = obj[j]
           /\ obj["cluster"].exists = TRUE /\ obj["cluster"].label = "own"
           /\ obj'["cluster"].exists = TRUE /\ obj'["cluster"].label = "own"
           /\ obj'["cluster"].server = obj["cluster"].server
           /\ obj'["cluster"].path = obj["cluster"].path
           /\ \/ obj'["cluster"].size = obj["cluster"].size
                 /\ obj'["cluster"].plugin = obj["cluster"].plugin
                 /\ settled' = settled
              \/ /\ obj'["cluster"].server = work.spec.server
                 /\ obj'["cluster"].size = work.spec.size
                 /\ obj'["cluster"].plugin = work.spec.backup
                 /\ settled' = TRUE => settled = TRUE \/ fresh = TRUE
  <1> DEFINE v == obj["cluster"]
             new == IF Rejected(v) THEN [v EXCEPT !.owner = 0] ELSE ReconcileClusterMutableFields(v)
  <1>1. "cluster" \in Kinds /\ obj \in [Kinds -> Objects] /\ v \in Objects /\ view = obj
    BY DEF IInv, TypeOK, Kinds, view
  <1>2. obj' = [obj EXCEPT !["cluster"] = new]
    BY <1>1 DEF ReconcileCluster
  <1>3. v.exists = TRUE /\ v.label = "own"
    BY <1>1 DEF ReconcileCluster, Objects
  <1>4. obj'["cluster"] = new /\ \A j \in Kinds : j # "cluster" => obj'[j] = obj[j]
    BY <1>1, <1>2
  <1>5. new.exists = v.exists /\ new.label = v.label /\ new.server = v.server /\ new.path = v.path
    BY <1>1 DEF ReconcileClusterMutableFields, Objects
  <1>6. CASE Rejected(v)
    <2>1. new.size = v.size /\ new.plugin = v.plugin
      BY <1>1, <1>6 DEF Objects
    <2>2. settled' = settled
      BY <1>1, <1>6, Zenon DEF ReconcileCluster, IInv, TypeOK
    <2> QED
      BY <1>3, <1>4, <1>5, <2>1, <2>2
  <1>7. CASE ~Rejected(v)
    <2>1. new.size = work.spec.size /\ new.plugin = work.spec.backup
      BY <1>1, <1>7 DEF ReconcileClusterMutableFields, Objects
    <2>2. v.server = work.spec.server
      BY <1>7 DEF Rejected, BootstrapChanged
    <2>3. settled' = TRUE => settled = TRUE \/ fresh = TRUE
      BY Zenon DEF ReconcileCluster, IInv, TypeOK
    <2> QED
      BY <1>3, <1>4, <1>5, <2>1, <2>2, <2>3
  <1> QED
    BY <1>6, <1>7

Reports == ReportBackup \/ FailBackup \/ ReportBackupCleanup
           \/ ReportRecovery \/ FailRecovery \/ ReportRecoveryCleanup

\* A status write changes no spec.
LEMMA ReportDoes ==
    ASSUME IInv, Fresh, Reports
    PROVE  /\ obj' = obj /\ settled' = settled
           /\ work'.spec = work.spec
           /\ project'.spec = project.spec /\ project'.exists = project.exists
           /\ Fresh'
  <1>1. PICK w, next : /\ Persist(w, next)
                       /\ \E b \in BOOLEAN : \/ w = [work EXCEPT !.backup = b]
                                             \/ w = [work EXCEPT !.recovery = b]
    BY DEF Reports, ReportBackup, FailBackup, ReportBackupCleanup, ReportRecovery,
           FailRecovery, ReportRecoveryCleanup
  <1>2. w.spec = work.spec /\ w.exists = work.exists
    BY <1>1 DEF IInv, TypeOK, Projects
  <1>3. obj' = obj /\ settled' = settled /\ work' = w /\ fresh' = fresh
    BY <1>1 DEF Persist
  <1>4. CASE fresh = TRUE
    <2>1. project' = w /\ project = work /\ project.exists = TRUE
      BY <1>1, <1>4 DEF Persist, Fresh
    <2> QED
      BY <1>2, <1>3, <2>1 DEF Fresh
  <1>5. CASE fresh = FALSE
    <2>1. project' = project
      BY <1>1, <1>5 DEF Persist
    <2> QED
      BY <1>2, <1>3, <1>5, <2>1 DEF Fresh
  <1> QED
    BY <1>4, <1>5 DEF IInv, TypeOK

LEMMA FreshStep ==
    ASSUME IInv, Fresh, [Next]_vars
    PROVE  Fresh'
  <1>1. CASE Start
    BY <1>1 DEF Start, Fresh, IInv, TypeOK, Projects
  <1>2. CASE Reports
    BY <1>2, ReportDoes
  <1>3. CASE EditSpec \/ DeleteProject
    BY <1>3 DEF EditSpec, DeleteProject, Fresh
  <1>4. CASE RecreateProject
    BY <1>4 DEF RecreateProject, Fresh
  <1>5. CASE UNCHANGED <<project, work, fresh>>
    BY <1>5 DEF Fresh
  <1>6. CASE Abort \/ CreateCluster \/ ReconcileCluster
    BY <1>5, <1>6 DEF Abort, CreateCluster, ReconcileCluster, End
  <1>7. CASE \/ ReconcileDurableMetadataProtection \/ ValidateRecoveryBootstrapIntent
             \/ ReconcileObjectStore \/ ReconcileScheduledBackup \/ SkipBackupCleanup
             \/ CleanupScheduledBackup \/ CleanupObjectStore \/ ReconcileRecoveryStore
             \/ SkipRecoveryCleanup \/ CleanupRecoveryStore
    BY <1>5, <1>7 DEF ReconcileDurableMetadataProtection, ValidateRecoveryBootstrapIntent,
       ReconcileObjectStore, ReconcileScheduledBackup, SkipBackupCleanup, CleanupScheduledBackup,
       CleanupObjectStore, ReconcileRecoveryStore, SkipRecoveryCleanup, CleanupRecoveryStore, Goto
  <1>8. CASE (\E k \in Kinds : Deliver(k) \/ CollectGarbage(k)) \/ UNCHANGED vars
    BY <1>5, <1>8 DEF Deliver, CollectGarbage, vars
  <1> QED
    BY <1>1, <1>2, <1>3, <1>4, <1>6, <1>7, <1>8 DEF Next, Reconcile, Environment, Reports

\* Past the repair nothing is the garbage collector's.
LEMMA NotCollected ==
    ASSUME IInv, pc \notin {"idle", "protectCluster", "protectStore", "protectRecoveryStore",
                            "protectSchedule"},
           NEW k \in Kinds
    PROVE  obj[k].owner = 0 /\ ~CollectGarbage(k)
  <1>1. Repaired = Kinds
    BY DEF Repaired
  <1>2. obj[k].owner = 0
    BY <1>1 DEF IInv, RepairInv
  <1> QED
    BY <1>2 DEF CollectGarbage

LEMMA PassedStep ==
    ASSUME IInv, Fresh, Passed, StaleReads = FALSE, [Next]_vars
    PROVE  Passed'
  <1>0. "cluster" \in Kinds /\ "store" \in Kinds /\ "recoveryStore" \in Kinds /\ "schedule" \in Kinds
    BY DEF Kinds
  <1>00. work.spec.backup \in BOOLEAN
    BY SpecType DEF IInv, TypeOK, Projects
  <1>1. CASE pc' \in {"idle", "protectCluster", "protectStore", "protectRecoveryStore",
                      "protectSchedule", "validate", "backup"}
    BY <1>1 DEF Passed
  <1>2. CASE \/ Start \/ Abort \/ ReconcileDurableMetadataProtection
             \/ ValidateRecoveryBootstrapIntent \/ CreateCluster \/ ReconcileCluster
             \/ FailBackup \/ FailRecovery
    BY <1>1, <1>2 DEF Start, Abort, End, ReconcileDurableMetadataProtection, ProtectAt, ProtectNext,
       ValidateRecoveryBootstrapIntent, CreateCluster, ReconcileCluster, FailBackup, FailRecovery,
       Persist, Goto
  <1>3. CASE ReconcileObjectStore
    <2>1. pc' = "schedule" /\ work' = work /\ work.spec.backup = TRUE /\ CreateOrUpdate("store")
      BY <1>00, <1>3 DEF ReconcileObjectStore, Goto
    <2>2. Own("store")'
      BY <1>0, <2>1, CreateOrUpdateDoes DEF Own
    <2> QED
      BY <2>1, <2>2 DEF Passed
  <1>4. CASE ReconcileScheduledBackup
    <2>1. pc = "schedule" /\ pc' = "backupDone" /\ work' = work /\ CreateOrUpdate("schedule")
      BY <1>4 DEF ReconcileScheduledBackup, Goto
    <2>2. Own("schedule")' /\ (Own("store") => Own("store")')
      BY <1>0, <2>1, CreateOrUpdateDoes DEF Own
    <2> QED
      BY <2>1, <2>2 DEF Passed
  <1>5. CASE SkipBackupCleanup
    <2>1. work' = work /\ pc' = "recovery" /\ work.spec.backup = FALSE
      BY <1>00, <1>5 DEF SkipBackupCleanup, Goto
    <2> QED
      BY <2>1 DEF Passed
  <1>6. CASE CleanupScheduledBackup
    <2>1. work' = work /\ pc' = "cleanStore" /\ work.spec.backup = FALSE
      BY <1>00, <1>6 DEF CleanupScheduledBackup, Goto
    <2> QED
      BY <2>1 DEF Passed
  <1>7. CASE CleanupObjectStore
    <2>1. work' = work /\ pc' = "backupCleaned" /\ pc = "cleanStore"
      BY <1>7 DEF CleanupObjectStore, Goto
    <2> QED
      BY <2>1 DEF Passed
  <1>8. CASE ReportBackup \/ ReportBackupCleanup
    <2>1. obj' = obj /\ work'.spec = work.spec
      BY <1>8, ReportDoes DEF Reports
    <2>2. pc \in {"backupDone", "backupCleaned"} /\ pc' \in {"idle", "recovery"}
      BY <1>8 DEF ReportBackup, ReportBackupCleanup, Persist
    <2> QED
      BY <1>1, <2>1, <2>2 DEF Passed, Own
  <1>9. CASE ReconcileRecoveryStore
    <2>1. /\ pc = "recovery" /\ pc' = "recoveryDone" /\ work' = work /\ Recovers(work.spec)
          /\ CreateOrUpdate("recoveryStore")
      BY <1>9 DEF ReconcileRecoveryStore, Goto
    <2>2. /\ Own("recoveryStore")' /\ obj'["recoveryStore"].path = work.spec.path
          /\ Own("store") => Own("store")'
          /\ Own("schedule") => Own("schedule")'
      BY <1>0, <2>1, CreateOrUpdateDoes DEF Own
    <2> QED
      BY <2>1, <2>2 DEF Passed
  <1>10. CASE SkipRecoveryCleanup
    <2>1. pc = "recovery" /\ pc' = "cluster" /\ work' = work /\ ~Recovers(work.spec) /\ obj' = obj
      BY <1>10 DEF SkipRecoveryCleanup, Goto
    <2> QED
      BY <2>1 DEF Passed, Own
  <1>11. CASE CleanupRecoveryStore
    <2>1. /\ pc = "recovery" /\ pc' = "recoveryCleaned" /\ work' = work /\ ~Recovers(work.spec)
          /\ Cleanup("recoveryStore")
      BY <1>11 DEF CleanupRecoveryStore, Goto
    <2>2. /\ Own("store") => Own("store")'
          /\ Own("schedule") => Own("schedule")'
      BY <1>0, <2>1, CleanupDoes DEF Own
    <2> QED
      BY <2>1, <2>2 DEF Passed
  <1>12. CASE ReportRecovery \/ ReportRecoveryCleanup
    <2>1. obj' = obj /\ work'.spec = work.spec
      BY <1>12, ReportDoes DEF Reports
    <2>2. pc \in {"recoveryDone", "recoveryCleaned"} /\ pc' \in {"idle", "cluster"}
      BY <1>12 DEF ReportRecovery, ReportRecoveryCleanup, Persist
    <2> QED
      BY <1>1, <2>1, <2>2 DEF Passed, Own
  <1>13. CASE UNCHANGED <<work, pc, obj>>
    BY <1>13 DEF Passed, Own
  <1>14. CASE EditSpec \/ DeleteProject \/ RecreateProject \/ UNCHANGED vars
              \/ \E k \in Kinds : Deliver(k)
    BY <1>13, <1>14 DEF EditSpec, DeleteProject, RecreateProject, vars, Deliver
  <1>15. ASSUME NEW k \in Kinds, CollectGarbage(k) PROVE Passed'
    <2>1. pc' = pc
      BY <1>15 DEF CollectGarbage
    <2> QED
      BY <1>1, <1>15, <2>1, NotCollected
  <1> QED
    BY <1>2, <1>3, <1>4, <1>5, <1>6, <1>7, <1>8, <1>9, <1>10, <1>11, <1>12, <1>14, <1>15
       DEF Next, Reconcile, Environment

LEMMA ConvergedKept ==
    ASSUME Converged, project'.spec = project.spec,
           \A k \in Kinds : Wanted(k, project.spec) /\ Own(k) => Own(k)',
           obj'["cluster"].server = obj["cluster"].server,
           obj'["cluster"].size = obj["cluster"].size,
           obj'["cluster"].plugin = obj["cluster"].plugin,
           Recovers(project.spec) =>
              obj'["recoveryStore"].path \in {obj["recoveryStore"].path, project.spec.path}
    PROVE  Converged'
  <1>1. \A k : Wanted(k, project.spec)' = Wanted(k, project.spec)
    BY DEF Wanted, Recovers
  <1> QED
    BY <1>1 DEF Converged, Recovers

\* The pass that ends with ReconcileCluster and changes nothing.
LEMMA SettledCluster ==
    ASSUME IInv, Fresh, Passed, Settled, StaleReads = FALSE, ReconcileCluster
    PROVE  Settled'
  <1> SUFFICES ASSUME settled' = TRUE PROVE Settled'
    BY DEF Settled
  <1>0. "cluster" \in Kinds /\ "store" \in Kinds /\ "recoveryStore" \in Kinds /\ "schedule" \in Kinds
        /\ Kinds = {"cluster", "store", "recoveryStore", "schedule"}
    BY DEF Kinds
  <1>1. pc = "cluster" /\ pc' = "idle" /\ work' = work /\ project' = project
    BY DEF ReconcileCluster, End
  <1>2. \A k \in Kinds : obj[k].owner = 0
    BY <1>1, NotCollected
  <1>3. \A k \in Kinds : obj'[k].owner = 0
    BY <1>2, ReconcileClusterStep DEF ObjectStep, Replaced
  <1>4. /\ \A j \in Kinds : j # "cluster" => obj'[j] = obj[j]
        /\ Own("cluster")'
    BY ReconcileClusterDoes DEF Own
  <1>5. \A k \in Kinds : Own(k) => Own(k)'
    BY <1>4 DEF Own
  <1>6. CASE settled = TRUE
    <2>1. work.spec = project.spec /\ Converged /\ project.exists = TRUE
      BY <1>1, <1>6 DEF Settled
    <2>2. obj["cluster"].server = work.spec.server /\ obj["cluster"].size = work.spec.size
          /\ obj["cluster"].plugin = work.spec.backup
      BY <2>1 DEF Converged
    <2>3. /\ obj'["cluster"].server = obj["cluster"].server
          /\ obj'["cluster"].size = obj["cluster"].size
          /\ obj'["cluster"].plugin = obj["cluster"].plugin
      BY <2>2, ReconcileClusterDoes
    <2>4. obj'["recoveryStore"] = obj["recoveryStore"]
      BY <1>0, <1>4
    <2>5. Converged'
      BY <1>1, <1>5, <2>1, <2>3, <2>4, ConvergedKept
    <2> QED
      BY <1>1, <1>3, <2>1, <2>5 DEF Settled
  <1>7. CASE settled # TRUE
    <2>1. /\ obj'["cluster"].server = work.spec.server
          /\ obj'["cluster"].size = work.spec.size
          /\ obj'["cluster"].plugin = work.spec.backup
          /\ fresh = TRUE
      BY <1>7, ReconcileClusterDoes
    <2>2. project = work /\ project.exists = TRUE
      BY <2>1 DEF Fresh
    <2>3. work.spec.backup = TRUE => Own("store") /\ Own("schedule")
      BY <1>1 DEF Passed
    <2>4. Recovers(work.spec) => Own("recoveryStore") /\ obj["recoveryStore"].path = work.spec.path
      BY <1>1 DEF Passed
    <2>5. \A k \in Kinds : Wanted(k, work.spec) => Own(k)'
      <3>1. work.spec.backup \in BOOLEAN
        BY SpecType DEF IInv, TypeOK, Projects
      <3> QED
        BY <1>0, <1>4, <1>5, <2>3, <2>4, <3>1 DEF Wanted
    <2>6. Recovers(work.spec) => obj'["recoveryStore"].path = work.spec.path
      BY <1>0, <1>4, <2>4
    <2>7. \A k : Wanted(k, project.spec)' = Wanted(k, work.spec)
      BY <1>1, <2>2 DEF Wanted, Recovers
    <2>8. Converged'
      BY <1>1, <2>1, <2>2, <2>5, <2>6, <2>7 DEF Converged, Recovers
    <2> QED
      BY <1>1, <1>3, <2>2, <2>8 DEF Settled
  <1> QED
    BY <1>6, <1>7

LEMMA SettledStep ==
    ASSUME IInv, Fresh, Passed, Settled, StaleReads = FALSE, [Next]_vars
    PROVE  Settled'
  <1>0. "cluster" \in Kinds /\ "store" \in Kinds /\ "recoveryStore" \in Kinds /\ "schedule" \in Kinds
    BY DEF Kinds
  <1>00. work.spec.backup \in BOOLEAN
    BY SpecType DEF IInv, TypeOK, Projects
  <1>1. CASE settled' # TRUE
    BY <1>1 DEF Settled
  <1>2. CASE EditSpec \/ DeleteProject
    BY <1>1, <1>2 DEF EditSpec, DeleteProject
  <1>3. CASE RecreateProject
    <2>1. settled' = settled /\ project.exists # TRUE
      BY <1>3 DEF RecreateProject
    <2> QED
      BY <1>1, <2>1 DEF Settled
  <1>4. CASE ReconcileCluster
    BY <1>4, SettledCluster
  <1>5. \A k \in Kinds : obj[k].owner = 0 => obj'[k].owner = 0
    BY NextObjects DEF ObjectStep, Replaced
  \* The same spec, and every resource it asks for is kept.
  <1>6. ASSUME settled' = settled,
               project'.spec = project.spec, project'.exists = project.exists,
               pc' = "idle" \/ work'.spec = project.spec \/ (pc # "idle" /\ work'.spec = work.spec),
               settled = TRUE => \A k \in Kinds : Wanted(k, project.spec) /\ Own(k) => Own(k)',
               obj'["cluster"].server = obj["cluster"].server,
               obj'["cluster"].size = obj["cluster"].size,
               obj'["cluster"].plugin = obj["cluster"].plugin,
               settled = TRUE => (Recovers(project.spec) =>
                  obj'["recoveryStore"].path \in {obj["recoveryStore"].path, project.spec.path})
        PROVE  Settled'
    <2> SUFFICES ASSUME settled = TRUE PROVE Settled'
      BY <1>6, <1>1
    <2>1. Converged'
      BY <1>6, ConvergedKept DEF Settled
    <2>2. project'.exists = TRUE /\ \A k \in Kinds : obj'[k].owner = 0
      BY <1>5, <1>6 DEF Settled
    <2>3. pc' = "idle" \/ work'.spec = project'.spec
      BY <1>6 DEF Settled
    <2> QED
      BY <2>1, <2>2, <2>3 DEF Settled
  <1>7. ASSUME obj' = obj, settled' = settled,
               project'.spec = project.spec, project'.exists = project.exists,
               pc' = "idle" \/ work'.spec = project.spec \/ (pc # "idle" /\ work'.spec = work.spec)
        PROVE  Settled'
    <2>1. \A k \in Kinds : Own(k) => Own(k)'
      BY <1>7 DEF Own
    <2> QED
      BY <1>6, <1>7, <2>1
  <1>8. CASE Start \/ Abort \/ ValidateRecoveryBootstrapIntent \/ SkipBackupCleanup
             \/ SkipRecoveryCleanup
    BY <1>7, <1>8 DEF Start, Abort, End, ValidateRecoveryBootstrapIntent, SkipBackupCleanup,
       SkipRecoveryCleanup, Goto
  <1>9. CASE Reports
    <2>1. pc # "idle"
      BY <1>9 DEF Reports, ReportBackup, FailBackup, ReportBackupCleanup, ReportRecovery,
           FailRecovery, ReportRecoveryCleanup
    <2> QED
      BY <1>7, <1>9, <2>1, ReportDoes
  <1>10. CASE (\E k \in Kinds : Deliver(k)) \/ UNCHANGED vars
    <2>1. UNCHANGED <<project, work, pc, obj, settled>>
      BY <1>10 DEF Deliver, vars
    <2>2. CASE pc = "idle"
      BY <1>7, <2>1, <2>2
    <2>3. CASE pc # "idle"
      BY <1>7, <2>1, <2>3
    <2> QED
      BY <2>2, <2>3
  <1>11. ASSUME NEW k \in Kinds, CollectGarbage(k) PROVE Settled'
    <2>1. settled' = settled /\ obj[k].owner # 0
      BY <1>11 DEF CollectGarbage
    <2> QED
      BY <1>1, <2>1 DEF Settled
  <1>12. CASE ReconcileDurableMetadataProtection
    <2>1. UNCHANGED <<work, project, settled>> /\ pc # "idle"
      BY <1>12 DEF ReconcileDurableMetadataProtection, Goto, ProtectAt
    <2>2. \A k \in Kinds : Own(k) => Own(k)'
      BY <1>12, ProtectionDoes DEF Own
    <2>3. /\ obj'["cluster"].server = obj["cluster"].server
          /\ obj'["cluster"].size = obj["cluster"].size
          /\ obj'["cluster"].plugin = obj["cluster"].plugin
          /\ obj'["recoveryStore"].path = obj["recoveryStore"].path
      BY <1>0, <1>12, ProtectionDoes
    <2> QED
      BY <1>6, <2>1, <2>2, <2>3
  <1>13. CASE CreateCluster
    <2>1. settled' = settled /\ ~obj["cluster"].exists
      BY <1>13 DEF CreateCluster
    <2>2. settled # TRUE
      BY <1>0, <2>1 DEF Settled, Converged, Own, Wanted
    <2> QED
      BY <1>1, <2>1, <2>2
  <1>14. ASSUME NEW k \in Kinds \ {"cluster"}, CreateOrUpdate(k),
                UNCHANGED <<work, project, settled>>, pc # "idle"
         PROVE  Settled'
    <2>1. \A j \in Kinds : j # k => obj'[j] = obj[j]
      BY <1>14, CreateOrUpdateDoes
    <2>2. Own(k)' /\ (k = "recoveryStore" => obj'[k].path = work.spec.path)
      BY <1>14, CreateOrUpdateDoes DEF Own
    <2>3. \A j \in Kinds : Own(j) => Own(j)'
      BY <2>1, <2>2 DEF Own
    <2>4. obj'["cluster"] = obj["cluster"]
      BY <1>0, <1>14, <2>1
    <2>5. settled = TRUE => project.spec = work.spec
      BY <1>14 DEF Settled
    <2>6. settled = TRUE =>
              obj'["recoveryStore"].path \in {obj["recoveryStore"].path, project.spec.path}
      BY <1>0, <2>1, <2>2, <2>5
    <2> QED
      BY <1>6, <1>14, <2>3, <2>4, <2>6
  <1>15. CASE ReconcileObjectStore \/ ReconcileScheduledBackup \/ ReconcileRecoveryStore
    BY <1>0, <1>14, <1>15 DEF ReconcileObjectStore, ReconcileScheduledBackup,
       ReconcileRecoveryStore, Goto
  <1>16. ASSUME NEW k \in Kinds \ {"cluster"}, Cleanup(k), ~Wanted(k, work.spec),
                UNCHANGED <<work, project, settled>>, pc # "idle"
         PROVE  Settled'
    <2>1. \A j \in Kinds : j # k => obj'[j] = obj[j]
      BY <1>16, CleanupDoes
    <2>2. settled = TRUE => project.spec = work.spec
      BY <1>16 DEF Settled
    <2>3. settled = TRUE => \A j \in Kinds : Wanted(j, project.spec) /\ Own(j) => Own(j)'
      BY <1>16, <2>1, <2>2 DEF Own
    <2>4. obj'["cluster"] = obj["cluster"]
      BY <1>0, <1>16, <2>1
    <2>5. settled = TRUE => (Recovers(project.spec) =>
              obj'["recoveryStore"].path \in {obj["recoveryStore"].path, project.spec.path})
      BY <1>0, <1>16, <2>1, <2>2 DEF Wanted
    <2> QED
      BY <1>6, <1>16, <2>3, <2>4, <2>5
  <1>17. CASE CleanupScheduledBackup \/ CleanupObjectStore \/ CleanupRecoveryStore
    <2>1. UNCHANGED <<work, project, settled>> /\ pc # "idle"
      BY <1>17 DEF CleanupScheduledBackup, CleanupObjectStore, CleanupRecoveryStore, Goto
    <2>2. CASE CleanupScheduledBackup
      <3>1. Cleanup("schedule") /\ ~Wanted("schedule", work.spec)
        BY <2>2 DEF CleanupScheduledBackup, Wanted
      <3> QED
        BY <1>0, <1>16, <2>1, <3>1
    <2>3. CASE CleanupObjectStore
      <3>1. Cleanup("store") /\ ~Wanted("store", work.spec)
        BY <2>3 DEF CleanupObjectStore, Wanted, Passed
      <3> QED
        BY <1>0, <1>16, <2>1, <3>1
    <2>4. CASE CleanupRecoveryStore
      <3>1. Cleanup("recoveryStore") /\ ~Wanted("recoveryStore", work.spec)
        BY <2>4 DEF CleanupRecoveryStore, Wanted
      <3> QED
        BY <1>0, <1>16, <2>1, <3>1
    <2> QED
      BY <1>17, <2>2, <2>3, <2>4
  <1> QED
    BY <1>2, <1>3, <1>4, <1>8, <1>9, <1>10, <1>11, <1>12, <1>13, <1>15, <1>17
       DEF Next, Reconcile, Environment, Reports

Early == {"idle", "protectCluster", "protectStore", "protectRecoveryStore", "protectSchedule",
          "validate"}

\* The comparison stays true as long as the Cluster and the source stay.
LEMMA ValidatedKept ==
    ASSUME TypeOK, Validated, pc \notin Early, work'.spec = work.spec,
           obj'["cluster"] = obj["cluster"],
           \/ pc' \in Early \cup {"recoveryDone", "recoveryCleaned", "cluster"}
           \/ pc \in {"backup", "schedule", "backupDone", "cleanStore", "backupCleaned", "recovery"}
              /\ obj'["recoveryStore"] = obj["recoveryStore"]
    PROVE  Validated'
  <1>1. (pc \in {"backup", "schedule", "backupDone", "cleanStore", "backupCleaned", "recovery",
                 "recoveryDone", "recoveryCleaned", "cluster"}
          /\ obj["cluster"].exists => obj["cluster"].server = work.spec.server)'
    BY DEF TypeOK, Validated, Early
  <1> QED
    BY <1>1 DEF Validated, Early, Recovers

\* Backups have nothing to do with the Cluster's source.
LEMMA BackupDoes ==
    ASSUME IInv, StaleReads = FALSE, CreateOrUpdate("store") \/ CreateOrUpdate("schedule")
    PROVE  obj'["cluster"] = obj["cluster"] /\ obj'["recoveryStore"] = obj["recoveryStore"]
  <1>1. /\ "store" \in Kinds \ {"cluster"} /\ "schedule" \in Kinds \ {"cluster"}
        /\ "cluster" \in Kinds /\ "recoveryStore" \in Kinds
    BY DEF Kinds
  <1>2. CASE CreateOrUpdate("store")
    <2>1. \A j \in Kinds : j # "store" => obj'[j] = obj[j]
      BY <1>1, <1>2, CreateOrUpdateDoes
    <2> QED
      BY <1>1, <2>1
  <1>3. CASE CreateOrUpdate("schedule")
    <2>1. \A j \in Kinds : j # "schedule" => obj'[j] = obj[j]
      BY <1>1, <1>3, CreateOrUpdateDoes
    <2> QED
      BY <1>1, <2>1
  <1> QED
    BY <1>2, <1>3

LEMMA ValidatedStep ==
    ASSUME IInv, Fresh, Validated, StaleReads = FALSE, [Next]_vars
    PROVE  Validated'
  <1>0. /\ "cluster" \in Kinds /\ "store" \in Kinds /\ "recoveryStore" \in Kinds /\ "schedule" \in Kinds
        /\ "store" \in Kinds \ {"cluster"} /\ "recoveryStore" \in Kinds \ {"cluster"}
        /\ "schedule" \in Kinds \ {"cluster"}
    BY DEF Kinds
  <1>1. CASE pc' \in Early
    BY <1>1 DEF Validated, Early
  <1>2. CASE \/ Start \/ Abort \/ ReconcileDurableMetadataProtection
             \/ CreateCluster \/ ReconcileCluster \/ FailBackup \/ FailRecovery
    BY <1>1, <1>2 DEF Start, Abort, End, ReconcileDurableMetadataProtection, ProtectAt, ProtectNext,
       CreateCluster, ReconcileCluster, FailBackup, FailRecovery, Persist, Goto, Early
  <1>3. CASE ValidateRecoveryBootstrapIntent
    <2>1. obj' = obj /\ work' = work /\ pc' = "backup" /\ view = obj /\ RecoveryIntentKept
      BY <1>3 DEF ValidateRecoveryBootstrapIntent, Goto, view
    <2> QED
      BY <2>1 DEF Validated, RecoveryIntentKept, BootstrapChanged
  <1>4. CASE Reports
    <2>1. obj' = obj /\ work'.spec = work.spec
      BY <1>4, ReportDoes
    <2>2. CASE ReportBackup \/ ReportBackupCleanup
      <3>1. pc \in {"backupDone", "backupCleaned"}
        BY <2>2 DEF ReportBackup, ReportBackupCleanup
      <3> QED
        BY <2>1, <3>1, ValidatedKept DEF Early, IInv
    <2>3. CASE ReportRecovery \/ ReportRecoveryCleanup
      <3>1. pc \in {"recoveryDone", "recoveryCleaned"} /\ pc' \in {"idle", "cluster"}
        BY <2>3 DEF ReportRecovery, ReportRecoveryCleanup, Persist
      <3> QED
        BY <2>1, <3>1, ValidatedKept DEF Early, IInv
    <2> QED
      BY <1>2, <1>4, <2>2, <2>3 DEF Reports
  <1>5. CASE SkipBackupCleanup \/ SkipRecoveryCleanup
    BY <1>5, ValidatedKept DEF IInv, SkipBackupCleanup, SkipRecoveryCleanup, Goto, Early
  <1>6. CASE ReconcileObjectStore \/ ReconcileScheduledBackup
    <2>1. pc \in {"backup", "schedule"} /\ work' = work
          /\ (CreateOrUpdate("store") \/ CreateOrUpdate("schedule"))
      BY <1>6 DEF ReconcileObjectStore, ReconcileScheduledBackup, Goto
    <2>2. obj'["cluster"] = obj["cluster"] /\ obj'["recoveryStore"] = obj["recoveryStore"]
      BY <2>1, BackupDoes
    <2> QED
      BY <2>1, <2>2, ValidatedKept DEF Early, IInv
  <1>7. CASE CleanupScheduledBackup \/ CleanupObjectStore
    <2>1. pc \in {"backup", "cleanStore"} /\ work' = work
          /\ (Cleanup("store") \/ Cleanup("schedule"))
      BY <1>7 DEF CleanupScheduledBackup, CleanupObjectStore, Goto
    <2>2. obj'["cluster"] = obj["cluster"] /\ obj'["recoveryStore"] = obj["recoveryStore"]
      BY <1>0, <2>1, CleanupDoes
    <2> QED
      BY <2>1, <2>2, ValidatedKept DEF Early, IInv
  <1>8. CASE ReconcileRecoveryStore \/ CleanupRecoveryStore
    <2>1. /\ pc = "recovery" /\ work' = work /\ pc' \in {"recoveryDone", "recoveryCleaned"}
          /\ CreateOrUpdate("recoveryStore") \/ Cleanup("recoveryStore")
      BY <1>8 DEF ReconcileRecoveryStore, CleanupRecoveryStore, Goto
    <2>2. obj'["cluster"] = obj["cluster"]
      BY <1>0, <2>1, CreateOrUpdateDoes, CleanupDoes
    <2> QED
      BY <2>1, <2>2, ValidatedKept DEF Early, IInv
  <1>9. CASE UNCHANGED <<work, pc, obj>>
    BY <1>9 DEF Validated, Recovers
  <1>10. CASE EditSpec \/ DeleteProject \/ RecreateProject \/ UNCHANGED vars
              \/ \E k \in Kinds : Deliver(k)
    BY <1>9, <1>10 DEF EditSpec, DeleteProject, RecreateProject, vars, Deliver
  <1>11. ASSUME NEW k \in Kinds, CollectGarbage(k) PROVE Validated'
    <2>1. pc' = pc
      BY <1>11 DEF CollectGarbage
    <2> QED
      BY <1>1, <1>11, <2>1, NotCollected DEF Early
  <1> QED
    BY <1>2, <1>3, <1>4, <1>5, <1>6, <1>7, <1>8, <1>10, <1>11
       DEF Next, Reconcile, Environment, Reports

LEMMA SourceStep ==
    ASSUME Retention, StaleReads = FALSE, [Next]_vars
    PROVE  Source'
  <1>0. /\ "cluster" \in Kinds /\ "store" \in Kinds /\ "recoveryStore" \in Kinds /\ "schedule" \in Kinds
        /\ "store" \in Kinds \ {"cluster"} /\ "recoveryStore" \in Kinds \ {"cluster"}
        /\ "schedule" \in Kinds \ {"cluster"}
    BY DEF Kinds
  <1>1. IInv /\ Fresh /\ Passed /\ Validated /\ Source
    BY DEF Retention, Convergence
  <1>2. \A k \in Kinds : obj'[k].owner = 0
    BY <1>1, NextObjects DEF ObjectStep, Replaced, Source
  <1>3. CASE /\ obj'["cluster"] = obj["cluster"]
             /\ obj'["recoveryStore"] = obj["recoveryStore"]
    BY <1>1, <1>2, <1>3 DEF Source, Own, Recovers
  <1>4. CASE \/ Start \/ Abort \/ ValidateRecoveryBootstrapIntent \/ SkipBackupCleanup
             \/ SkipRecoveryCleanup \/ Reports \/ EditSpec \/ DeleteProject \/ RecreateProject
             \/ UNCHANGED vars \/ \E k \in Kinds : Deliver(k)
    <2>1. obj' = obj
      BY <1>1, <1>4, ReportDoes DEF Start, Abort, ValidateRecoveryBootstrapIntent,
         SkipBackupCleanup, SkipRecoveryCleanup, EditSpec, DeleteProject, RecreateProject, vars,
         Deliver
    <2> QED
      BY <1>3, <2>1
  <1>5. CASE ReconcileObjectStore \/ ReconcileScheduledBackup
    BY <1>1, <1>3, <1>5, BackupDoes DEF ReconcileObjectStore, ReconcileScheduledBackup
  <1>6. CASE CleanupScheduledBackup \/ CleanupObjectStore
    BY <1>0, <1>1, <1>3, <1>6, CleanupDoes DEF CleanupScheduledBackup, CleanupObjectStore
  <1>7. ASSUME NEW k \in Kinds, CollectGarbage(k) PROVE Source'
    BY <1>1, <1>7 DEF CollectGarbage, Source
  <1>8. CASE ReconcileDurableMetadataProtection
    BY <1>0, <1>1, <1>2, <1>8, ProtectionDoes DEF Source, Own, Recovers
  \* The source is not deleted, since the Cluster was not made from one.
  <1>9. CASE CleanupRecoveryStore
    <2>1. Cleanup("recoveryStore") /\ pc = "recovery" /\ ~Recovers(work.spec)
      BY <1>9 DEF CleanupRecoveryStore
    <2>2. obj'["cluster"] = obj["cluster"]
      BY <1>0, <1>1, <2>1, CleanupDoes
    <2>3. obj["cluster"].exists => ~Recovers(obj["cluster"])
      BY <1>1, <2>1 DEF Validated, Recovers
    <2> QED
      BY <1>2, <2>2, <2>3 DEF Source, Own, Recovers
  \* Its location is written, and is the one it has.
  <1>10. CASE ReconcileRecoveryStore
    <2>1. CreateOrUpdate("recoveryStore") /\ pc = "recovery" /\ Recovers(work.spec)
      BY <1>10 DEF ReconcileRecoveryStore
    <2>2. /\ obj'["cluster"] = obj["cluster"] /\ obj'["recoveryStore"].path = work.spec.path
          /\ Own("recoveryStore")'
      BY <1>0, <1>1, <2>1, CreateOrUpdateDoes DEF Own
    <2>3. Own("cluster") /\ Recovers(obj["cluster"]) => work.spec.path = obj["cluster"].path
      BY <1>1, <2>1 DEF Validated, Source, Own
    <2> QED
      BY <1>2, <2>2, <2>3 DEF Source, Own, Recovers
  \* The source is made before the Cluster.
  <1>11. CASE CreateCluster
    <2>1. /\ obj'["recoveryStore"] = obj["recoveryStore"]
          /\ obj'["cluster"].server = work.spec.server
          /\ obj'["cluster"].path = work.spec.path
      BY <1>0, <1>1, <1>11, CreateClusterDoes
    <2>2. Recovers(work.spec) => Own("recoveryStore") /\ obj["recoveryStore"].path = work.spec.path
      BY <1>1, <1>11 DEF CreateCluster, Passed
    <2> QED
      BY <1>2, <2>1, <2>2 DEF Source, Own, Recovers
  <1>12. CASE ReconcileCluster
    <2>1. /\ obj'["recoveryStore"] = obj["recoveryStore"]
          /\ obj'["cluster"].server = obj["cluster"].server
          /\ obj'["cluster"].path = obj["cluster"].path
          /\ Own("cluster")
      BY <1>0, <1>1, <1>12, ReconcileClusterDoes DEF Own
    <2> QED
      BY <1>1, <1>2, <2>1 DEF Source, Own, Recovers
  <1> QED
    BY <1>4, <1>5, <1>6, <1>7, <1>8, <1>9, <1>10, <1>11, <1>12
       DEF Next, Reconcile, Environment, Reports

LEMMA InitConvergence == Init => Convergence /\ Validated
  <1> SUFFICES ASSUME Init PROVE Convergence /\ Validated
    OBVIOUS
  <1>1. pc = "idle" /\ fresh = FALSE /\ settled = FALSE
    BY DEF Init, InitFrom
  <1> QED
    BY <1>1, InitIInv DEF Convergence, Fresh, Passed, Settled, Validated

LEMMA ConvergenceInvariance ==
    ASSUME StaleReads = FALSE PROVE Spec => []Convergence
  <1>1. Convergence /\ [Next]_vars => Convergence'
    BY NextIInv, FreshStep, PassedStep, SettledStep DEF Convergence
  <1> QED
    BY <1>1, InitConvergence, PTL DEF Spec

\* Without cache lag, a spec that a pass has reconciled to its end without a
\* change is what the resources are, until the spec is edited or the project is
\* deleted: every later pass, whatever it is interrupted by, leaves them so.
THEOREM SettledIsConverged ==
    ASSUME StaleReads = FALSE PROVE Spec => []SettledConverged
  <1>1. Convergence => SettledConverged
    <2> SUFFICES ASSUME Convergence, settled, pc = "idle" PROVE Converged
      BY DEF SettledConverged, Converged
    <2>1. settled = TRUE
      BY Zenon DEF Convergence, IInv, TypeOK
    <2> QED
      BY <2>1 DEF Convergence, Settled
  <1> QED
    BY <1>1, ConvergenceInvariance, PTL

LEMMA InitSource ==
    ASSUME Legacy = FALSE PROVE Init => Source
  <1> SUFFICES ASSUME Init PROVE Source
    OBVIOUS
  <1>1. PICK s \in Specs, foreign \in SUBSET Kinds, upgraded \in BOOLEAN :
           InitFrom(s, foreign, upgraded)
    BY DEF Init
  <1>2. upgraded = FALSE
    BY <1>1 DEF InitFrom
  <1>3. \A k \in Kinds : obj[k] = IF k \in foreign THEN [Build(k, s) EXCEPT !.label = "foreign"]
                                                   ELSE Absent
    BY <1>1, <1>2 DEF InitFrom
  <1>4. \A k \in Kinds : obj[k].owner = 0 /\ (obj[k].exists => obj[k].label = "foreign")
    <2> SUFFICES ASSUME NEW k \in Kinds
                 PROVE  obj[k].owner = 0 /\ (obj[k].exists => obj[k].label = "foreign")
      OBVIOUS
    <2>1. Build(k, s) \in Objects /\ Build(k, s).owner = 0
      BY BuildType
    <2> QED
      BY <1>3, <2>1, AbsentType DEF Objects
  <1> QED
    BY <1>4 DEF Source, Own, Kinds

\* "cleanup cannot remove the source ObjectStore": without cache lag, and
\* without resources an older operator left to the garbage collector, a Cluster
\* made from a backup keeps the ObjectStore it came from and its location, over
\* any edits of the recovery spec and any recreated projects.
THEOREM SourceRetained ==
    ASSUME StaleReads = FALSE, Legacy = FALSE PROVE Spec => []RecoverySourceRetained
  <1>1. Init => Retention
    BY InitConvergence, InitSource DEF Retention
  <1>2. Retention /\ [Next]_vars => Retention'
    BY NextIInv, FreshStep, PassedStep, SettledStep, ValidatedStep, SourceStep
       DEF Retention, Convergence
  <1>3. Retention => RecoverySourceRetained
    BY DEF Retention, Source, RecoverySourceRetained
  <1> QED
    BY <1>1, <1>2, <1>3, PTL DEF Spec
=============================================================================
