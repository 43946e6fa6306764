-------------------------- MODULE PowerSyncProofs --------------------------
(***************************************************************************)
(* PowerSync is never deployed ahead of its publication, for every set of  *)
(* schema lists and any number of edits and failures.                      *)
(*                                                                         *)
(* The argument: the status of the Publication is only current while the   *)
(* database publishes what its spec asks for (StatusTrue), and from the    *)
(* moment the pass has seen it applied until it has deployed everything,   *)
(* no other actor can make it change (PassHolds): CNPG has nothing left to *)
(* apply, and only the reconciler itself deletes or edits it.              *)
(*                                                                         *)
(* For the states in which the operator rests: what a pass has behind it   *)
(* (Deployment, Cleanup) holds until an event queues the key (Undisturbed).*)
(***************************************************************************)
EXTENDS PowerSync, TLAPS

StatusTrue == pub.current => pub.exists /\ ~pub.deleting /\ published = pub.schemas

\* The steps after the publication was found applied.
AfterPublication == {"script", "job", "api", "replication", "compact", "report"}

PassHolds == pc \in AfterPublication => pub.current /\ pub.schemas = work.schemas

\* A pass is for PowerSync or for its absence.
Path ==
    /\ pc \in AfterPublication \cup {"rules", "roles", "publication"} => work.on = TRUE
    /\ pc \in DOMAIN CleanupNext => work.on = FALSE

\* What a pass for PowerSync has behind it, at each step.
Deployment ==
    /\ pc # "rules" => loaded = rules /\ rules # 0
    /\ pc \in {"finish", "idle"} => published = work.schemas
    /\ pc \in {"api", "replication", "compact", "report", "finish", "idle"}
          => job.hash = work.schemas
    /\ pc \in {"replication", "compact", "report", "finish", "idle"} => dep["api"] = rules
    /\ pc \in {"compact", "report", "finish", "idle"} => dep["replication"] = rules
    /\ pc \in {"report", "finish", "idle"} => compact = work.compact

\* And what a pass without it has.
Cleanup ==
    /\ pc # "cleanApi" => dep["api"] = 0
    /\ pc \notin {"cleanApi", "cleanReplication"} => dep["replication"] = 0
    /\ pc \in {"cleanJob", "cleanCompact", "cleanPublication", "finish", "idle"} => script = {}
    /\ pc \in {"cleanCompact", "cleanPublication", "finish", "idle"}
          => (job.state # "absent" => job.deleting)
    /\ pc \in {"cleanPublication", "finish", "idle"} => compact = FALSE
    /\ pc \in {"finish", "idle"} => (pub.exists => pub.deleting)

\* As long as nothing has put the key back into the queue, the pass is for the
\* project there is, and what it has done is still so.
Undisturbed ==
    queued = FALSE =>
       /\ fresh = TRUE /\ work = spec
       /\ pc = "idle" => observed = TRUE
       /\ work.on = TRUE => Deployment
       /\ work.on = FALSE => Cleanup

IInv == TypeOK /\ StatusTrue /\ PassHolds /\ Path /\ Undisturbed

-----------------------------------------------------------------------------
(* Types.                                                                  *)

LEMMA SpecType ==
    ASSUME NEW s \in Specs
    PROVE  /\ s.schemas \subseteq Schemas
           /\ s.compact \in BOOLEAN
           /\ s.on \in BOOLEAN
  <1>1. CASE s = Off
    BY <1>1 DEF Off
  <1>2. CASE s \in [on : {TRUE}, schemas : SchemaLists, compact : BOOLEAN]
    <2>1. s.schemas \in SchemaLists
      BY <1>2
    <2>2. s.schemas \subseteq Schemas
      BY <2>1, Zenon DEF Schemas
    <2> QED
      BY <1>2, <2>2
  <1> QED
    BY <1>1, <1>2 DEF Specs

LEMMA NoneType == NoPublication \in Publications /\ NoJob \in Jobs
  BY DEF NoPublication, Publications, NoJob, Jobs

\* The variables a pass has to itself.
PassType ==
    /\ work \in Specs /\ fresh \in BOOLEAN /\ loaded \in 0..MaxRules
    /\ pc \in {"idle", "rules", "roles", "publication", "script", "job", "api",
               "replication", "compact", "report", "finish"} \cup DOMAIN CleanupNext
    /\ queued \in BOOLEAN /\ observed \in BOOLEAN

LEMMA InitIInv == Init => IInv
  <1> SUFFICES ASSUME Init PROVE IInv
    OBVIOUS
  <1>1. 0 \in 0..MaxRules /\ 0 \in 0..MaxEdits /\ 0 \in 0..MaxFailures
    BY ConstantsAssumption
  <1>2. TypeOK
    BY <1>1, NoneType DEF Init, TypeOK
  <1> QED
    BY <1>2 DEF Init, IInv, StatusTrue, PassHolds, AfterPublication, NoPublication, Path,
                Undisturbed, CleanupNext

LEMMA GotoType ==
    ASSUME TypeOK, NEW next, Goto(next),
           next \in {"publication", "script", "job", "api", "replication", "compact",
                     "report", "finish"} \cup DOMAIN CleanupNext
    PROVE  PassType'
  BY DEF TypeOK, PassType, Goto

LEMMA RequeueType ==
    ASSUME TypeOK, Requeue
    PROVE  PassType'
  BY DEF TypeOK, PassType, Requeue

LEMMA NotifyType ==
    ASSUME TypeOK, Notify
    PROVE  PassType'
  BY DEF TypeOK, PassType, Notify

LEMMA ReconcileType ==
    ASSUME TypeOK, Reconcile \/ Abort
    PROVE  TypeOK'
  <1> USE DEF TypeOK
  <1>1. CASE Start
    BY <1>1 DEF Start, project, database, CleanupNext
  <1>2. CASE ReconcilePowerSyncRulesValidation
    <2>1. PassType'
      <3>1. CASE rules = 0
        BY <1>2, <3>1, RequeueType DEF ReconcilePowerSyncRulesValidation
      <3>2. CASE rules # 0
        BY <1>2, <3>2 DEF ReconcilePowerSyncRulesValidation, PassType
      <3> QED
        BY <3>1, <3>2
    <2> QED
      BY <1>2, <2>1 DEF ReconcilePowerSyncRulesValidation, PassType, project, database
  <1>3. CASE WaitForPowerSyncManagedRoles
    <2>1. PassType'
      BY <1>3, RequeueType, GotoType DEF WaitForPowerSyncManagedRoles
    <2> QED
      BY <1>3, <2>1 DEF WaitForPowerSyncManagedRoles, PassType, project, database
  <1>4. CASE ReconcilePowerSyncPublication
    <2>1. PassType'
      BY <1>4, RequeueType, GotoType DEF ReconcilePowerSyncPublication
    <2>2. pub' \in Publications
      BY <1>4, SpecType, NoneType DEF ReconcilePowerSyncPublication, Publications
    <2> QED
      BY <1>4, <2>1, <2>2 DEF ReconcilePowerSyncPublication, PassType, project, database
  <1>5. CASE ReconcileCDCScript
    <2>1. PassType'
      BY <1>5, GotoType DEF ReconcileCDCScript
    <2>2. script' \subseteq Schemas
      BY <1>5, SpecType DEF ReconcileCDCScript
    <2> QED
      BY <1>5, <2>1, <2>2 DEF ReconcileCDCScript, PassType, project, database
  <1>6. CASE CreateOrCheckJob
    <2>1. PassType'
      BY <1>6, RequeueType, GotoType DEF CreateOrCheckJob
    <2>2. job' \in Jobs
      BY <1>6, SpecType, NoneType DEF CreateOrCheckJob, Jobs
    <2> QED
      BY <1>6, <2>1, <2>2 DEF CreateOrCheckJob, PassType, project, database
  <1>7. ASSUME NEW w \in Workloads, NEW next \in {"replication", "compact"}, Deploy(w, next)
        PROVE  TypeOK'
    <2>1. PassType'
      BY <1>7, GotoType DEF Deploy
    <2>2. dep' \in [Workloads -> 0..MaxRules]
      BY <1>7 DEF Deploy, Deployed
    <2>3. (up[w] /\ dep[w] = Deployed(w)) \in BOOLEAN
      OBVIOUS
    <2>4. up' \in [Workloads -> BOOLEAN]
      BY <1>7, <2>3 DEF Deploy
    <2> QED
      BY <1>7, <2>1, <2>2, <2>4 DEF Deploy, PassType, project, database
  <1>8. CASE DeployAPI \/ DeployReplication
    BY <1>7, <1>8 DEF DeployAPI, DeployReplication, Workloads
  <1>9. CASE ReconcileCompact
    <2>1. PassType'
      BY <1>9, GotoType DEF ReconcileCompact
    <2> QED
      BY <1>9, <2>1, SpecType DEF ReconcileCompact, PassType, project, database
  <1>10. CASE ReportDeployments
    <2>1. PassType'
      BY <1>10, RequeueType, GotoType DEF ReportDeployments
    <2> QED
      BY <1>10, <2>1 DEF ReportDeployments, PassType, project, database
  <1>11. CASE CleanupPowerSync
    <2>1. PassType'
      <3>1. CleanupNext[pc] \in DOMAIN CleanupNext \cup {"finish"}
        BY <1>11 DEF CleanupPowerSync, CleanupNext
      <3> QED
        BY <1>11, <3>1, GotoType DEF CleanupPowerSync
    <2>2. dep' \in [Workloads -> 0..MaxRules]
      BY <1>11, ConstantsAssumption DEF CleanupPowerSync, Clean
    <2>3. up' \in [Workloads -> BOOLEAN]
      <3>1. \A w \in Workloads : (up[w] /\ dep'[w] # 0) \in BOOLEAN
        OBVIOUS
      <3> QED
        BY <1>11, <3>1 DEF CleanupPowerSync, Clean
    <2>4. pub' \in Publications /\ job' \in Jobs
      BY <1>11 DEF CleanupPowerSync, Clean, Publications, Jobs
    <2>5. script' \subseteq Schemas
      BY <1>11 DEF CleanupPowerSync, Clean
    <2>6. compact' \in BOOLEAN
      BY <1>11, Zenon DEF CleanupPowerSync, Clean
    <2> QED
      BY <1>11, <2>1, <2>2, <2>3, <2>4, <2>5, <2>6
      DEF CleanupPowerSync, PassType, project, database
  <1>12. CASE Finish
    <2>1. observed' \in BOOLEAN /\ queued' \in BOOLEAN
      BY <1>12, Zenon DEF Finish
    <2> QED
      BY <1>12, <2>1 DEF Finish, project, database
  <1>13. CASE Abort
    <2>1. PassType'
      BY <1>13, RequeueType DEF Abort
    <2>2. failures' \in 0..MaxFailures
      BY <1>13, ConstantsAssumption DEF Abort
    <2> QED
      BY <1>13, <2>1, <2>2 DEF Abort, PassType, project, database
  <1> QED
    BY <1>1, <1>2, <1>3, <1>4, <1>5, <1>6, <1>8, <1>9, <1>10, <1>11, <1>12, <1>13
    DEF Reconcile

\* The actors around the reconciler.
Around == EditSpec \/ EditRules \/ Progress \/ RolesChange \/ FailJob \/ DeploymentChanges

LEMMA AroundType ==
    ASSUME TypeOK, Around
    PROVE  TypeOK'
  <1> USE DEF TypeOK
  <1>1. CASE EditSpec
    <2>1. edits' \in 0..MaxEdits
      BY <1>1, ConstantsAssumption DEF EditSpec
    <2> QED
      BY <1>1, <2>1 DEF EditSpec, database
  <1>2. CASE EditRules
    <2>1. PassType'
      BY <1>2, NotifyType DEF EditRules
    <2>2. edits' \in 0..MaxEdits
      BY <1>2, ConstantsAssumption DEF EditRules
    <2> QED
      BY <1>2, <2>1, <2>2 DEF EditRules, PassType, database
  <1>3. CASE RolesChange
    <2>1. PassType'
      BY <1>3, NotifyType DEF RolesChange
    <2>2. failures' \in 0..MaxFailures
      BY <1>3, ConstantsAssumption DEF RolesChange
    <2> QED
      BY <1>3, <2>1, <2>2 DEF RolesChange, PassType, project
  <1>4. CASE ApplyPublication
    <2>1. PassType'
      BY <1>4, NotifyType DEF ApplyPublication
    <2>2. pub' \in Publications /\ published' \subseteq Schemas
      BY <1>4 DEF ApplyPublication, Publications
    <2> QED
      BY <1>4, <2>1, <2>2 DEF ApplyPublication, PassType, project
  <1>5. CASE FinalizePublication
    <2>1. PassType'
      BY <1>5, NotifyType DEF FinalizePublication
    <2> QED
      BY <1>5, <2>1, NoneType DEF FinalizePublication, PassType, project
  <1>6. CASE StartJob \/ RemoveJob
    <2>1. PassType'
      BY <1>6, NotifyType DEF StartJob, RemoveJob
    <2>2. job' \in Jobs
      BY <1>6, NoneType DEF StartJob, RemoveJob, Jobs
    <2> QED
      BY <1>6, <2>1, <2>2 DEF StartJob, RemoveJob, PassType, project, database
  <1>7. CASE CompleteJob
    <2>1. PassType'
      BY <1>7, NotifyType DEF CompleteJob
    <2>2. job' \in Jobs /\ granted' \subseteq Schemas
      BY <1>7 DEF CompleteJob, Jobs
    <2> QED
      BY <1>7, <2>1, <2>2 DEF CompleteJob, PassType, project
  <1>8. CASE FailJob
    <2>1. PassType'
      BY <1>8, NotifyType DEF FailJob
    <2>2. job' \in Jobs
      BY <1>8 DEF FailJob, Jobs
    <2>3. failures' \in 0..MaxFailures
      BY <1>8, ConstantsAssumption DEF FailJob
    <2> QED
      BY <1>8, <2>1, <2>2, <2>3 DEF FailJob, PassType, project, database
  <1>9. CASE DeploymentChanges
    <2>1. PassType'
      BY <1>9, NotifyType DEF DeploymentChanges
    <2>2. failures' \in 0..MaxFailures
      BY <1>9, ConstantsAssumption DEF DeploymentChanges
    <2>3. up' \in [Workloads -> BOOLEAN]
      BY <1>9 DEF DeploymentChanges
    <2> QED
      BY <1>9, <2>1, <2>2, <2>3 DEF DeploymentChanges, PassType, project, database
  <1> QED
    BY <1>1, <1>2, <1>3, <1>4, <1>5, <1>6, <1>7, <1>8, <1>9 DEF Around, Progress

-----------------------------------------------------------------------------
(* The invariant.                                                          *)

\* The steps that go on only put the key into the queue when they end the pass.
LEMMA Disturbed ==
    ASSUME IInv, queued' = TRUE, work' = work, pc' \in {pc, "idle"}
    PROVE  Path' /\ Undisturbed'
  <1>1. Undisturbed'
    BY Zenon DEF Undisturbed
  <1>2. Path'
    BY DEF IInv, Path, AfterPublication, CleanupNext
  <1> QED
    BY <1>1, <1>2

LEMMA RequeueDisturbs ==
    ASSUME IInv, Requeue
    PROVE  Path' /\ Undisturbed'
  BY Disturbed DEF Requeue

LEMMA WorkKind ==
    ASSUME IInv
    PROVE  /\ work.on = TRUE \/ work.on = FALSE
           /\ queued = TRUE \/ queued = FALSE
  <1>1. work.on \in BOOLEAN /\ queued \in BOOLEAN
    BY SpecType DEF IInv, TypeOK
  <1> QED
    BY <1>1, Zenon

\* A step of a pass for PowerSync, to another such step or to the end.
LEMMA OnStep ==
    ASSUME IInv, NEW step \in AfterPublication \cup {"publication", "finish"}, Goto(step),
           pc \in AfterPublication \cup {"rules", "roles", "publication"},
           UNCHANGED <<spec, rules>>, queued = FALSE => Deployment'
    PROVE  Path' /\ Undisturbed'
  <1>1. /\ pc' = step /\ UNCHANGED <<work, fresh, loaded, queued, observed>>
    BY DEF Goto
  <1>2. work.on = TRUE
    BY DEF IInv, Path
  <1>3. Path'
    BY <1>1, <1>2 DEF Path, AfterPublication, CleanupNext
  <1>4. pc' # "idle"
    BY <1>1 DEF AfterPublication
  <1>5. ASSUME queued' = FALSE
        PROVE  fresh' = TRUE /\ work' = spec' /\ Deployment'
    BY <1>1, <1>5 DEF IInv, Undisturbed
  <1> QED
    BY <1>1, <1>2, <1>3, <1>4, <1>5 DEF Undisturbed

\* What the pass has behind it, if undisturbed.
LEMMA SoFar ==
    ASSUME IInv, queued = FALSE
    PROVE  /\ work.on = TRUE => Deployment
           /\ work.on = FALSE => Cleanup
           /\ fresh = TRUE /\ work = spec
  BY DEF IInv, Undisturbed

LEMMA PathStep ==
    ASSUME IInv, Next
    PROVE  Path' /\ Undisturbed'
  <1>1. CASE Abort
    BY <1>1, RequeueDisturbs DEF Abort
  <1>2. CASE Around
    <2>1. queued' = TRUE /\ work' = work /\ pc' = pc
      BY <1>2 DEF Around, EditSpec, EditRules, Progress, RolesChange, FailJob,
         DeploymentChanges, ApplyPublication, FinalizePublication, StartJob, CompleteJob,
         RemoveJob, Notify
    <2> QED
      BY <2>1, Disturbed
  <1>3. CASE Start
    <2>1. /\ queued' = FALSE /\ work' = spec /\ spec' = spec /\ fresh' = TRUE
          /\ pc' = IF spec.on THEN "rules" ELSE "cleanApi"
      BY <1>3 DEF Start, project
    <2>2. spec.on = TRUE \/ spec.on = FALSE
      <3>1. spec.on \in BOOLEAN
        BY SpecType DEF IInv, TypeOK
      <3> QED
        BY <3>1, Zenon
    <2>3. Path'
      BY <2>1, <2>2 DEF Path, AfterPublication, CleanupNext
    <2>4. work'.on = TRUE => Deployment'
      BY <2>1 DEF Deployment
    <2>5. work'.on = FALSE => Cleanup'
      BY <2>1 DEF Cleanup
    <2>6. pc' # "idle"
      BY <2>1
    <2> QED
      BY <2>1, <2>3, <2>4, <2>5, <2>6 DEF Undisturbed
  <1>4. CASE ReconcilePowerSyncRulesValidation
    <2>1. CASE rules = 0
      BY <1>4, <2>1, RequeueDisturbs DEF ReconcilePowerSyncRulesValidation
    <2>2. CASE rules # 0
      <3>1. /\ pc = "rules" /\ pc' = "roles" /\ loaded' = rules /\ rules' = rules
            /\ UNCHANGED <<work, fresh, queued, observed, spec>>
        BY <1>4, <2>2 DEF ReconcilePowerSyncRulesValidation, project
      <3>2. work.on = TRUE
        BY <3>1 DEF IInv, Path
      <3>3. Path'
        BY <3>1, <3>2 DEF Path, AfterPublication, CleanupNext
      <3>4. Deployment'
        BY <2>2, <3>1 DEF Deployment
      <3> QED
        BY <3>1, <3>2, <3>3, <3>4, SoFar DEF Undisturbed
    <2> QED
      BY <2>1, <2>2
  <1>5. CASE WaitForPowerSyncManagedRoles
    <2>1. CASE roles = "ready"
      <3>1. /\ pc = "roles" /\ Goto("publication") /\ UNCHANGED <<spec, rules>>
        BY <1>5, <2>1 DEF WaitForPowerSyncManagedRoles, project
      <3>2. queued = FALSE => Deployment'
        BY <3>1, SoFar DEF Deployment, Goto, IInv, Path
      <3> QED
        BY <3>1, <3>2, OnStep
    <2> QED
      BY <1>5, <2>1, RequeueDisturbs DEF WaitForPowerSyncManagedRoles
  <1>6. CASE ReconcilePowerSyncPublication
    <2>1. CASE Goto("script")
      <3>1. /\ pc = "publication" /\ UNCHANGED <<spec, rules>>
        BY <1>6 DEF ReconcilePowerSyncPublication, project
      <3>2. queued = FALSE => Deployment'
        BY <2>1, <3>1, SoFar DEF Deployment, Goto, IInv, Path
      <3> QED
        BY <2>1, <3>1, <3>2, OnStep DEF AfterPublication
    <2> QED
      BY <1>6, <2>1, RequeueDisturbs DEF ReconcilePowerSyncPublication
  <1>7. CASE ReconcileCDCScript
    <2>1. pc = "script" /\ Goto("job") /\ UNCHANGED <<spec, rules>>
      BY <1>7 DEF ReconcileCDCScript, project
    <2>2. queued = FALSE => Deployment'
      BY <2>1, SoFar DEF Deployment, Goto, IInv, Path, AfterPublication
    <2> QED
      BY <2>1, <2>2, OnStep DEF AfterPublication
  <1>8. CASE CreateOrCheckJob
    <2>1. CASE job.state = "complete" /\ job.hash = work.schemas
      <3>1. pc = "job" /\ Goto("api") /\ UNCHANGED <<spec, rules>> /\ job' = job
        BY <1>8, <2>1 DEF CreateOrCheckJob, project
      <3>2. queued = FALSE => Deployment'
        BY <2>1, <3>1, SoFar DEF Deployment, Goto, IInv, Path, AfterPublication
      <3> QED
        BY <3>1, <3>2, OnStep DEF AfterPublication
    <2> QED
      BY <1>8, <2>1, RequeueDisturbs DEF CreateOrCheckJob
  <1>9. CASE DeployAPI
    <2>1. /\ pc = "api" /\ Goto("replication") /\ UNCHANGED <<spec, rules, job>>
          /\ dep' = [dep EXCEPT !["api"] = loaded]
      BY <1>9 DEF DeployAPI, Deploy, Deployed, project
    <2>2. dep'["api"] = loaded
      BY <2>1 DEF IInv, TypeOK, Workloads
    <2>3. queued = FALSE => Deployment'
      BY <2>1, <2>2, SoFar DEF Deployment, Goto, IInv, Path, AfterPublication
    <2> QED
      BY <2>1, <2>3, OnStep DEF AfterPublication
  <1>10. CASE DeployReplication
    <2>1. /\ pc = "replication" /\ Goto("compact") /\ UNCHANGED <<spec, rules, job>>
          /\ dep' = [dep EXCEPT !["replication"] = loaded]
      BY <1>10 DEF DeployReplication, Deploy, Deployed, project
    <2>2. dep'["replication"] = loaded /\ dep'["api"] = dep["api"]
      BY <2>1 DEF IInv, TypeOK, Workloads
    <2>3. queued = FALSE => Deployment'
      BY <2>1, <2>2, SoFar DEF Deployment, Goto, IInv, Path, AfterPublication
    <2> QED
      BY <2>1, <2>3, OnStep DEF AfterPublication
  <1>11. CASE ReconcileCompact
    <2>1. /\ pc = "compact" /\ Goto("report") /\ UNCHANGED <<spec, rules, job, dep>>
          /\ compact' = work.compact /\ work' = work
      BY <1>11 DEF ReconcileCompact, project, Goto
    <2>2. queued = FALSE => Deployment'
      BY <2>1, SoFar DEF Deployment, Goto, IInv, Path, AfterPublication
    <2> QED
      BY <2>1, <2>2, OnStep DEF AfterPublication
  <1>12. CASE ReportDeployments
    <2>1. CASE Goto("finish")
      <3>1. pc = "report" /\ UNCHANGED <<spec, rules, job, dep, compact, published>>
        BY <1>12 DEF ReportDeployments, project, database
      <3>2. published = work.schemas
        BY <3>1 DEF IInv, PassHolds, StatusTrue, AfterPublication
      <3>3. queued = FALSE => Deployment'
        BY <2>1, <3>1, <3>2, SoFar DEF Deployment, Goto, IInv, Path, AfterPublication
      <3> QED
        BY <2>1, <3>1, <3>3, OnStep DEF AfterPublication
    <2> QED
      BY <1>12, <2>1, RequeueDisturbs DEF ReportDeployments
  <1>13. CASE CleanupPowerSync
    <2>1. /\ pc \in DOMAIN CleanupNext /\ pc' = CleanupNext[pc] /\ Clean(pc)
          /\ UNCHANGED <<work, fresh, queued, observed, spec>>
      BY <1>13 DEF CleanupPowerSync, Goto, project
    <2>2. work.on = FALSE
      BY <2>1 DEF IInv, Path
    <2>3. Path'
      BY <2>1, <2>2 DEF Path, AfterPublication, CleanupNext
    <2>4. /\ dep'["api"] = IF pc = "cleanApi" THEN 0 ELSE dep["api"]
          /\ dep'["replication"] = IF pc = "cleanReplication" THEN 0 ELSE dep["replication"]
      BY <2>1 DEF Clean, Workloads
    <2>5. /\ script' = IF pc = "cleanScript" THEN {} ELSE script
          /\ pc # "cleanJob" => job' = job
      BY <2>1 DEF Clean
    <2>6. /\ pc = "cleanCompact" => compact' = FALSE
          /\ compact = FALSE => compact' = FALSE
      BY <2>1, Zenon DEF Clean
    <2>7. pc = "cleanPublication" /\ pub'.exists => pub'.deleting
      BY <2>1 DEF Clean, IInv, TypeOK, Publications
    <2>8. pc = "cleanJob" /\ job'.state # "absent" => job'.deleting
      BY <2>1 DEF Clean, IInv, TypeOK, Jobs
    <2>9. ASSUME queued = FALSE PROVE Cleanup'
      <3>1. Cleanup
        BY <2>2, <2>9, SoFar
      <3> QED
        BY <2>1, <2>4, <2>5, <2>6, <2>7, <2>8, <3>1 DEF Cleanup, CleanupNext
    <2>10. pc' # "idle"
      BY <2>1 DEF CleanupNext
    <2> QED
      BY <2>1, <2>2, <2>3, <2>9, <2>10, SoFar DEF Undisturbed
  <1>14. CASE Finish
    <2>1. /\ pc = "finish" /\ pc' = "idle"
          /\ UNCHANGED <<work, fresh, loaded, spec, rules, published, job, dep, compact, script,
                         pub>>
      BY <1>14 DEF Finish, project, database
    <2>2. Path'
      BY <2>1 DEF Path, AfterPublication, CleanupNext
    <2>3. queued' = FALSE => queued = FALSE /\ observed' = TRUE
      BY <1>14, WorkKind, Zenon DEF Finish, IInv, TypeOK
    <2>4. ASSUME queued = FALSE
          PROVE  /\ work.on = TRUE => Deployment'
                 /\ work.on = FALSE => Cleanup'
      BY <2>1, <2>4, SoFar DEF Deployment, Cleanup
    <2> QED
      BY <2>1, <2>2, <2>3, <2>4, SoFar DEF Undisturbed
  <1> QED
    BY <1>1, <1>2, <1>3, <1>4, <1>5, <1>6, <1>7, <1>8, <1>9, <1>10, <1>11, <1>12, <1>13, <1>14
       DEF Next, Reconcile, Around

LEMMA NextIInv == IInv /\ [Next]_vars => IInv'
  <1> SUFFICES ASSUME IInv, [Next]_vars PROVE IInv'
    OBVIOUS
  <1>1. TypeOK'
    <2>1. CASE UNCHANGED vars
      BY <2>1 DEF IInv, TypeOK, vars, project, pass, database
    <2> QED
      BY <2>1, ReconcileType, AroundType DEF IInv, Next, Around
  <1>2. StatusTrue' /\ PassHolds'
    <2> USE DEF IInv, StatusTrue, PassHolds, AfterPublication
    <2>1. CASE ReconcilePowerSyncPublication
      <3>1. StatusTrue'
        BY <2>1 DEF ReconcilePowerSyncPublication, NoPublication, database, TypeOK, Publications
      <3>2. pc' \in AfterPublication => pub' = pub /\ pub.current /\ pub.exists
        BY <2>1 DEF ReconcilePowerSyncPublication, PublicationIsApplied, Goto, Requeue,
                    NoPublication, TypeOK, Publications
      <3>3. pub' = pub /\ pub.exists => pub.schemas = work.schemas
        BY <2>1 DEF ReconcilePowerSyncPublication, TypeOK, Publications
      <3>4. work' = work
        BY <2>1 DEF ReconcilePowerSyncPublication, Goto, Requeue
      <3> QED
        BY <3>1, <3>2, <3>3, <3>4
    <2>2. CASE CleanupPowerSync
      <3>1. pc' \notin AfterPublication
        BY <2>2 DEF CleanupPowerSync, Goto, CleanupNext
      <3>2. StatusTrue'
        BY <2>2 DEF CleanupPowerSync, Clean, database, TypeOK, Publications
      <3> QED
        BY <3>1, <3>2
    <2>3. CASE ApplyPublication
      BY <2>3 DEF ApplyPublication, Notify, TypeOK, Publications
    <2>4. CASE FinalizePublication
      BY <2>4 DEF FinalizePublication, Notify, NoPublication
    <2>5. CASE Start \/ ReconcilePowerSyncRulesValidation \/ WaitForPowerSyncManagedRoles
               \/ Finish \/ Abort
      <3>1. pub' = pub /\ published' = published /\ pc' \notin AfterPublication
        BY <2>5 DEF Start, ReconcilePowerSyncRulesValidation, WaitForPowerSyncManagedRoles,
                    Finish, Abort, Requeue, Goto, database
      <3> QED
        BY <3>1
    <2>6. CASE ReconcileCDCScript \/ CreateOrCheckJob \/ DeployAPI \/ DeployReplication
               \/ ReconcileCompact \/ ReportDeployments
      <3>1. pub' = pub /\ published' = published /\ work' = work /\ pc \in AfterPublication
        BY <2>6 DEF ReconcileCDCScript, CreateOrCheckJob, DeployAPI, DeployReplication, Deploy,
                    ReconcileCompact, ReportDeployments, Requeue, Goto, database
      <3> QED
        BY <3>1
    <2>7. CASE EditSpec \/ EditRules \/ RolesChange \/ StartJob \/ CompleteJob \/ FailJob
               \/ RemoveJob \/ DeploymentChanges \/ UNCHANGED vars
      <3>1. pub' = pub /\ published' = published /\ work' = work /\ pc' = pc
        BY <2>7 DEF EditSpec, EditRules, RolesChange, StartJob, CompleteJob, FailJob,
                    RemoveJob, DeploymentChanges, Notify, vars, pass, database
      <3> QED
        BY <3>1
    <2> QED
      BY <2>1, <2>2, <2>3, <2>4, <2>5, <2>6, <2>7 DEF Next, Reconcile, Progress
  <1>3. Path' /\ Undisturbed'
    <2>1. CASE UNCHANGED vars
      BY <2>1 DEF IInv, Path, Undisturbed, Deployment, Cleanup, vars, project, pass, database
    <2> QED
      BY <2>1, PathStep
  <1> QED
    BY <1>1, <1>2, <1>3 DEF IInv

-----------------------------------------------------------------------------
(* Theorems.                                                               *)

\* The invariant the others rest on.
THEOREM Invariance == Spec => []IInv
  <1> QED
    BY InitIInv, NextIInv, PTL DEF Spec

\* Every variable keeps its type: no publication, script or grant ever names a
\* schema that no spec asked for.
THEOREM TypeCorrect == Spec => []TypeOK
  <1>1. IInv => TypeOK
    BY DEF IInv
  <1> QED
    BY <1>1, Invariance, PTL

\* While a pass deploys PowerSync, the database publishes exactly the schemas
\* the pass is for, whatever users, CNPG and earlier passes did before.
THEOREM PublishedFirst == Spec => []PublishedBeforePowerSync
  <1>1. IInv => PublishedBeforePowerSync
    BY DEF IInv, StatusTrue, PassHolds, AfterPublication, PublishedBeforePowerSync, Deploying
  <1> QED
    BY <1>1, Invariance, PTL

\* The operator only rests, with no key queued and no pass under way, when
\* PowerSync is what the stored project and the current sync rules ask for, or
\* gone but for a Job and a Publication in deletion when the project does not:
\* for every set of schema lists and any number of edits, failing Jobs, roles,
\* Deployments and passes.
THEOREM RestsWhenConverged == Spec => []RestsConverged
  <1>1. IInv => RestsConverged
    <2> SUFFICES ASSUME IInv, pc = "idle", ~queued
                 PROVE  /\ observed
                        /\ spec.on => /\ rules # 0
                                      /\ \A w \in Workloads : dep[w] = rules
                                      /\ compact = spec.compact
                                      /\ published = spec.schemas
                                      /\ job.hash = spec.schemas
                        /\ ~spec.on => /\ \A w \in Workloads : dep[w] = 0
                                       /\ script = {} /\ ~compact
                                       /\ job.state # "absent" => job.deleting
                                       /\ pub.exists => pub.deleting
      BY DEF RestsConverged, Quiescent
    <2>1. queued = FALSE
      BY WorkKind, Zenon
    <2>2. work = spec /\ (spec.on = TRUE => Deployment) /\ (spec.on = FALSE => Cleanup)
      BY <2>1, SoFar
    <2>3. observed
      BY <2>1, Zenon DEF IInv, Undisturbed
    <2>4. spec.on = TRUE \/ spec.on = FALSE
      BY <2>2, WorkKind
    <2>5. CASE spec.on = TRUE
      <3>1. Deployment
        BY <2>2, <2>5
      <3> QED
        BY <2>2, <2>3, <2>5, <3>1 DEF Deployment, Workloads
    <2>6. CASE spec.on = FALSE
      <3>1. Cleanup
        BY <2>2, <2>6
      <3> QED
        BY <2>2, <2>3, <2>6, <3>1 DEF Cleanup, Workloads
    <2> QED
      BY <2>4, <2>5, <2>6
  <1> QED
    BY <1>1, Invariance, PTL
=============================================================================
