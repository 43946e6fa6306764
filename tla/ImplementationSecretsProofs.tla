-------------------- MODULE ImplementationSecretsProofs --------------------
(***************************************************************************)
(* What ImplementationSecrets keeps for any number of generated Secrets,   *)
(* any specs and any number of recreated projects.                         *)
(*                                                                         *)
(* The argument: passes are for incarnations that never become older, and  *)
(* every write names the incarnation of its pass.  So a cached Secret that *)
(* already names it proves that the stored one, however far the cache is   *)
(* behind, no longer names an earlier one (Owners), and what the pass has  *)
(* dealt with stays that way (Secured).  A status is accepted only while   *)
(* the project is the one the pass read (Reading).                         *)
(*                                                                         *)
(* For the states in which the operator rests: as long as no key has been  *)
(* queued since the pass began, each Secret it has dealt with is in the    *)
(* cache as it should be, or differs from the cache in a way whose event   *)
(* queues the key (Undisturbed).                                           *)
(***************************************************************************)
EXTENDS ImplementationSecrets, TLAPS

\* Not owned by an incarnation before the one of the pass.
Current(object) == object.owner \in {Nobody, Foreign, work.uid}

\* Incarnations only become younger: project, then known, then work.
Order ==
    /\ project.uid \in {0, incarnations}
    /\ work.uid <= incarnations
    /\ known.uid = 0 \/ (work.uid <= known.uid /\ known.uid <= incarnations)
    /\ incarnations <= (IF project.uid = 0 THEN changes ELSE changes + 1)

\* A status write that would be accepted is one for the stored project.
Reading ==
    /\ fresh => project = work
    /\ (fresh \/ pc # "idle") => work.uid # 0

Owners ==
    \A s \in Secrets :
       /\ secret[s].owner \in {Nobody, Foreign} \cup 1..work.uid
       /\ cache[s].owner \in {Nobody, Foreign} \cup 1..work.uid
       /\ cache[s].owner = work.uid => Current(secret[s])

\* The Secrets the pass has called createOrUpdateSecret for.
Done ==
    CASE pc = "idle" -> {}
      [] pc = "generated" -> {s \in Generated : s < next}
      [] pc \in {"findHook", "createHook", "report", "auth"} ->
            Generated \cup (IF work.powersync THEN {Token} ELSE {})
      [] OTHER -> Generated

Secured == \A s \in Done : Current(secret[s])

\* createOrUpdateSecret and the token are only reached with PowerSync.
Branch == pc \in {"findStorage", "findReplication", "storage", "replication",
                  "findToken", "createToken", "adoptToken"} => work.powersync

Reported ==
    reported # {} => /\ project.uid = work.uid
                     /\ project.uid # 0
                     /\ \A s \in reported \cap Kept : Current(secret[s])

-----------------------------------------------------------------------------
(* What a pass leaves behind when no event has come since it started.      *)

\* A Secret of the project of the pass; the token satisfies its contract.
Good(s) ==
    /\ Exists(cache[s]) /\ cache[s].owner = work.uid
    /\ s = Token => cache[s].valid = TRUE

\* The cache has it as it should be, or the watch has something to report of it
\* that brings the key back into the queue.
Noted(s) ==
    \/ Good(s)
    \/ cache[s] # secret[s] /\ Exists(secret[s]) /\ secret[s].owner = work.uid
    \/ s \in deleted

\* A pass that is over has dealt with all it needs.
Behind == IF pc = "idle" THEN Needed(work) \cap Kept ELSE Done

Undisturbed ==
    (queued = FALSE /\ known.uid # 0) =>
       /\ work = known
       /\ \A s \in Behind : Noted(s)
       /\ (pc \in {"createToken", "adoptToken"} /\ Exists(cache[Token]) /\ Owned(cache[Token]))
             => cache[Token].valid = TRUE
       /\ pc = "idle" /\ work.hook /\ Owned(cache[Hook]) => auth = cache[Hook].value
       /\ pc = "idle" /\ ~work.hook => auth = NoValue

Inv == Order /\ Reading /\ Owners /\ Secured /\ Branch /\ Reported

IInv == TypeOK /\ Inv

-----------------------------------------------------------------------------
(* Types.                                                                  *)

LEMMA SecretsType ==
    /\ Generated \subseteq Secrets /\ Kept \subseteq Secrets
    /\ Storage \in Secrets /\ Replication \in Secrets /\ Token \in Secrets /\ Hook \in Secrets
    /\ Token \notin Generated
  BY ConstantsAssumption
     DEF Generated, Secrets, Kept, Storage, Replication, Token, Hook

LEMMA NeededType ==
    ASSUME NEW p PROVE Needed(p) \subseteq Secrets
  BY SecretsType DEF Needed

LEMMA ContentsType ==
    ASSUME NEW v \in Values \cup {NoValue}, NEW b \in BOOLEAN, NEW o \in 0..Foreign
    PROVE  [value |-> v, valid |-> b, owner |-> o] \in Contents
  BY DEF Contents

LEMMA FieldTypes ==
    ASSUME NEW c \in Contents
    PROVE  c.value \in Values \cup {NoValue} /\ c.valid \in BOOLEAN /\ c.owner \in 0..Foreign
  BY DEF Contents

LEMMA AbsentType == Absent \in Contents /\ Absent.owner = Nobody
  <1>1. 0 \in 0..Foreign
    BY ConstantsAssumption DEF Foreign, MaxIncarnations
  <1>2. FALSE \in BOOLEAN
    OBVIOUS
  <1> QED
    BY <1>1, <1>2, ContentsType DEF Absent, Nobody

LEMMA FreshType ==
    ASSUME NEW s PROVE FreshValues(s) \subseteq Values
  BY DEF FreshValues

LEMMA UidTypes ==
    ASSUME TypeOK
    PROVE  /\ project.uid \in 0..MaxIncarnations /\ known.uid \in 0..MaxIncarnations
           /\ work.uid \in 0..MaxIncarnations
           /\ MaxIncarnations \in Nat /\ Foreign = MaxIncarnations + 1 /\ Nobody = 0
           /\ incarnations \in Nat /\ changes \in Nat
  BY ConstantsAssumption DEF TypeOK, Projects, MaxIncarnations, Foreign, Nobody

-----------------------------------------------------------------------------
(* What a step may do to the Secrets.                                      *)

\* A Secret is left alone or no longer belongs to an earlier incarnation.
SecretStep ==
    /\ secret' \in [Secrets -> Contents]
    /\ \A s \in Secrets : secret'[s] = secret[s] \/ Current(secret'[s])

LEMMA OneSecret ==
    ASSUME TypeOK, NEW s \in Secrets, NEW object \in Contents, Current(object),
           secret' = [secret EXCEPT ![s] = object]
    PROVE  SecretStep /\ Current(secret'[s])
  BY DEF TypeOK, SecretStep

LEMMA WrittenType ==
    ASSUME TypeOK, NEW s \in Secrets, NEW valid \in BOOLEAN, NEW object \in Written(s, valid)
    PROVE  object \in Contents /\ object.owner = work.uid
  <1>1. work.uid \in 0..Foreign
    BY UidTypes
  <1>2. cache[s] \in Contents
    BY DEF TypeOK
  <1>3. CASE Exists(cache[s])
    <2>1. object = [cache[s] EXCEPT !.owner = work.uid]
      BY <1>3 DEF Written
    <2> QED
      BY <1>1, <1>2, <2>1 DEF Contents
  <1>4. CASE ~Exists(cache[s])
    <2>1. PICK v \in FreshValues(s) : object = Made(v, valid)
      BY <1>4 DEF Written
    <2>2. v \in Values \cup {NoValue}
      BY FreshType
    <2>3. object = [value |-> v, valid |-> valid, owner |-> work.uid]
      BY <2>1 DEF Made
    <2>4. object \in Contents
      BY <1>1, <2>2, <2>3, ContentsType
    <2> QED
      BY <2>3, <2>4
  <1> QED
    BY <1>3, <1>4

LEMMA CreateOrUpdateStep ==
    ASSUME IInv, NEW s \in Secrets, NEW valid \in BOOLEAN, CreateOrUpdateSecret(s, valid)
    PROVE  SecretStep /\ Current(secret'[s])
  <1>1. TypeOK /\ Owners
    BY DEF IInv, Inv
  <1>2. CASE cache[s] \in Written(s, valid)
    <2>1. secret' = secret
      BY <1>2 DEF CreateOrUpdateSecret
    <2>2. cache[s].owner = work.uid
      BY <1>1, <1>2, WrittenType
    <2>3. Current(secret[s])
      BY <1>1, <2>2 DEF Owners
    <2>4. secret \in [Secrets -> Contents]
      BY <1>1 DEF TypeOK
    <2> QED
      BY <2>1, <2>3, <2>4 DEF SecretStep
  <1>3. CASE cache[s] \notin Written(s, valid)
    <2>1. PICK object \in Written(s, valid) : secret' = [secret EXCEPT ![s] = object]
      BY <1>3 DEF CreateOrUpdateSecret
    <2>2. object \in Contents /\ object.owner = work.uid
      BY <1>1, WrittenType
    <2>3. Current(object)
      BY <2>2 DEF Current
    <2> QED
      BY <1>1, <2>1, <2>2, <2>3, OneSecret
  <1> QED
    BY <1>2, <1>3

\* SecretStep and the same pass keep every fact about owners that does not
\* depend on the step of the pass.
LEMMA SecretStepKeeps ==
    ASSUME IInv, SecretStep, work' = work, cache' = cache
    PROVE  /\ Owners'
           /\ \A s \in Secrets : Current(secret[s]) => Current(secret[s])'
  <1>1. work.uid \in Nat
    BY UidTypes DEF IInv
  <1>2. \A s \in Secrets : Current(secret[s]) => Current(secret[s])'
    BY DEF SecretStep, Current
  <1>3. \A s \in Secrets : secret'[s].owner \in {Nobody, Foreign} \cup 1..work.uid
    BY <1>1 DEF SecretStep, Current, IInv, Inv, Owners, Nobody
  <1> QED
    BY <1>2, <1>3 DEF IInv, Inv, Owners

-----------------------------------------------------------------------------
(* The steps of the pass.                                                  *)

Steps == {"idle", "generated", "findStorage", "findReplication", "storage",
          "replication", "findToken", "createToken", "adoptToken",
          "findHook", "createHook", "report", "auth"}

\* A step that leaves the project and the caches alone, adds to what the pass
\* has dealt with only Secrets that are in order, and reports nothing new.
LEMMA PassKeeps ==
    ASSUME IInv, SecretStep,
           UNCHANGED <<work, cache, project, known, incarnations>>,
           changes' \in {changes, changes + 1},
           fresh' => fresh, pc' # "idle" => pc # "idle", Branch',
           \A s \in Secrets : s \in Done' => s \in Done \/ Current(secret[s])',
           reported' \in {reported, {}}
    PROVE  Inv'
  <1>1. /\ Owners'
        /\ \A s \in Secrets : Current(secret[s]) => Current(secret[s])'
    BY SecretStepKeeps
  <1>2. Order'
    BY UidTypes DEF IInv, Inv, Order
  <1>3. Reading'
    BY DEF IInv, Inv, Reading
  <1>4. Done' \subseteq Secrets
    BY SecretsType DEF Done
  <1>5. Secured'
    BY <1>1, <1>4 DEF IInv, Inv, Secured
  <1>6. Reported'
    BY <1>1, SecretsType DEF IInv, Inv, Reported
  <1> QED
    BY <1>1, <1>2, <1>3, <1>5, <1>6 DEF Inv

\* The variables of the pass and the status keep their types.
LEMMA PassTypes ==
    ASSUME TypeOK, UNCHANGED <<work, project, known, cache, incarnations, changes>>,
           secret' \in [Secrets -> Contents], deleted' \subseteq Secrets,
           pc' \in Steps, next' \in 1..(NumGenerated + 1),
           fresh' \in BOOLEAN, queued' \in BOOLEAN,
           reported' \subseteq Secrets, auth' \in Values \cup {NoValue}
    PROVE  TypeOK'
  BY DEF TypeOK, Steps

\* The pass moves on to a step at which it has dealt with no more Secrets than
\* those that are in order.
LEMMA GotoKeeps ==
    ASSUME IInv, SecretStep, NEW step \in Steps \ {"idle"}, Goto(step), pc # "idle",
           UNCHANGED <<cache, deleted, project, known, bounds, reported, auth>>,
           Branch', \A s \in Secrets : s \in Done' => s \in Done \/ Current(secret[s])'
    PROVE  IInv'
  <1>1. fresh' \in BOOLEAN /\ queued' \in BOOLEAN
    BY Zenon DEF Goto, IInv, TypeOK
  <1>2. TypeOK'
    BY <1>1, PassTypes DEF Goto, bounds, IInv, TypeOK, SecretStep
  <1>3. Inv'
    BY PassKeeps DEF Goto, bounds
  <1> QED
    BY <1>2, <1>3 DEF IInv

LEMMA EndKeeps ==
    ASSUME IInv, NEW again \in BOOLEAN, End(again),
           UNCHANGED <<objects, project, known, bounds>>,
           reported' \in {reported, {}}, auth' \in Values \cup {NoValue}
    PROVE  IInv'
  <1>1. secret \in [Secrets -> Contents] /\ secret' = secret
    BY DEF objects, IInv, TypeOK
  <1>2. SecretStep
    BY <1>1 DEF SecretStep
  <1>3. 1 \in 1..(NumGenerated + 1)
    BY ConstantsAssumption
  <1>4. fresh' \in BOOLEAN /\ queued' \in BOOLEAN
    BY Zenon DEF End
  <1>5. TypeOK'
    BY <1>1, <1>3, <1>4, PassTypes DEF End, objects, bounds, Steps, IInv, TypeOK
  <1>6. Branch' /\ Done' = {}
    BY DEF Branch, Done, End
  <1>7. Inv'
    BY <1>2, <1>6, PassKeeps DEF End, objects, bounds
  <1> QED
    BY <1>5, <1>7 DEF IInv

LEMMA FailKeeps ==
    ASSUME IInv, Fail, UNCHANGED <<objects, project, known, bounds, auth>>
    PROVE  IInv'
  <1>1. TRUE \in BOOLEAN /\ End(TRUE)
    BY Zenon DEF Fail
  <1>2. reported' \in {reported, {}} /\ auth' \in Values \cup {NoValue}
    BY DEF Fail, IInv, TypeOK
  <1> QED
    BY <1>1, <1>2, EndKeeps

LEMMA StartKeeps ==
    ASSUME IInv, Start PROVE IInv'
  <1>1. TypeOK /\ Inv
    BY DEF IInv
  <1>2. CASE known.uid = 0
    <2>1. UNCHANGED <<work, pc, next, fresh, project, known, secret, cache, deleted,
                      reported, auth, incarnations, changes>> /\ queued' \in BOOLEAN
      BY <1>2, Zenon DEF Start, pass, objects, bounds
    <2>2. TypeOK'
      BY <1>1, <2>1 DEF TypeOK
    <2>3. Inv'
      BY <1>1, <2>1 DEF Inv, Order, Reading, Owners, Secured, Done, Branch, Reported, Current
    <2> QED
      BY <2>2, <2>3 DEF IInv
  <1>3. CASE known.uid # 0
    <2>1. /\ work' = known /\ pc' = "generated" /\ next' = 1
          /\ fresh' \in BOOLEAN /\ queued' \in BOOLEAN /\ (fresh' => known = project)
          /\ UNCHANGED <<project, known, secret, cache, deleted,
                         reported, auth, incarnations, changes>>
      <3>1. /\ work' = known /\ pc' = "generated" /\ next' = 1 /\ fresh' = (known = project)
            /\ queued' = FALSE
            /\ UNCHANGED <<project, known, secret, cache, deleted,
                           reported, auth, incarnations, changes>>
        BY <1>3, Zenon DEF Start, objects, bounds
      <3>2. CASE known = project
        BY <3>1, <3>2
      <3>3. CASE known # project
        BY <3>1, <3>3
      <3> QED
        BY <3>2, <3>3
    <2>2. 1 \in 1..(NumGenerated + 1)
      BY ConstantsAssumption
    <2>3. TypeOK'
      BY <1>1, <2>1, <2>2 DEF TypeOK
    <2>4. Order' /\ Branch'
      BY <1>1, <1>3, <2>1, UidTypes DEF Inv, Order, Branch
    <2>8. Reading'
      BY <1>3, <2>1 DEF Reading
    <2>5. Owners'
      BY <1>1, <1>3, <2>1, UidTypes DEF Inv, Order, Owners, Current
    <2>6. Done' = {}
      BY <2>1 DEF Done, Generated
    <2>7. Reported'
      BY <1>1, <1>3, <2>1, UidTypes DEF Inv, Order, Reported, Current
    <2> QED
      BY <2>3, <2>4, <2>5, <2>6, <2>7, <2>8 DEF IInv, Inv, Secured
  <1> QED
    BY <1>2, <1>3

\* createOrUpdateSecret, followed by a step at which only its Secret is new.
LEMMA EnsureKeeps ==
    ASSUME IInv, NEW s \in Secrets, NEW valid \in BOOLEAN, NEW step \in Steps \ {"idle"},
           pc # "idle", EnsureSecret(s, valid, step),
           pc' = step /\ work' = work => Branch' /\ Done' \subseteq Done \cup {s}
    PROVE  IInv'
  <1>1. CASE CreateOrUpdateSecret(s, valid) /\ Goto(step)
    <2>1. SecretStep /\ Current(secret[s])'
      <3>1. SecretStep /\ Current(secret'[s])
        BY <1>1, CreateOrUpdateStep
      <3> QED
        BY <1>1, <3>1 DEF Current, Goto
    <2>2. UNCHANGED <<cache, deleted, project, known, bounds, reported, auth>>
      BY <1>1 DEF EnsureSecret, CreateOrUpdateSecret
    <2>3. Branch' /\ Done' \subseteq Done \cup {s}
      BY <1>1 DEF Goto
    <2> QED
      BY <1>1, <2>1, <2>2, <2>3, GotoKeeps
  <1>2. CASE RefuseSecret(s, valid)
    BY <1>2, FailKeeps DEF EnsureSecret, RefuseSecret
  <1> QED
    BY <1>1, <1>2 DEF EnsureSecret

LEMMA GeneratedKeeps ==
    ASSUME IInv, ReconcileGeneratedSecrets PROVE IInv'
  <1>1. next \in Secrets /\ next \in Generated
    BY SecretsType, ConstantsAssumption DEF ReconcileGeneratedSecrets, Generated, IInv, TypeOK
  <1>2. TRUE \in BOOLEAN
    OBVIOUS
  <1>3. CASE CreateOrUpdateSecret(next, TRUE) /\ next' = next + 1
             /\ UNCHANGED <<work, fresh, pc, queued>>
    <2>1. SecretStep /\ Current(secret'[next])
      BY <1>1, <1>2, <1>3, CreateOrUpdateStep
    <2>2. UNCHANGED <<cache, deleted, project, known, incarnations, changes, reported, auth>>
      BY <1>3 DEF ReconcileGeneratedSecrets, CreateOrUpdateSecret, bounds
    <2>3. fresh' \in BOOLEAN /\ queued' \in BOOLEAN
      BY <1>3, Zenon DEF IInv, TypeOK
    <2>4. next' \in 1..(NumGenerated + 1)
      BY <1>3, ConstantsAssumption DEF ReconcileGeneratedSecrets, IInv, TypeOK
    <2>5. TypeOK'
      BY <1>3, <2>1, <2>2, <2>3, <2>4, PassTypes DEF SecretStep, IInv, TypeOK, Steps
    <2>6. pc = "generated" /\ pc' = "generated"
      BY <1>3 DEF ReconcileGeneratedSecrets
    <2>7. \A s \in Secrets : s \in Done' => s \in Done \/ s = next
      BY <1>3, <2>6, ConstantsAssumption DEF Done, Generated, IInv, TypeOK
    <2>8. Current(secret'[next]) => \A s \in Secrets : s = next => Current(secret[s])'
      BY <1>3 DEF Current
    <2>9. Branch' /\ (fresh' => fresh)
      BY <1>3, <2>6 DEF Branch
    <2>10. Inv'
      BY <1>3, <2>1, <2>2, <2>6, <2>7, <2>8, <2>9, PassKeeps
    <2> QED
      BY <2>5, <2>10 DEF IInv
  <1>4. CASE RefuseSecret(next, TRUE)
    BY <1>4, FailKeeps DEF ReconcileGeneratedSecrets, RefuseSecret
  <1> QED
    BY <1>3, <1>4 DEF ReconcileGeneratedSecrets

\* A step that writes nothing.
LEMMA LookKeeps ==
    ASSUME IInv, NEW step \in Steps \ {"idle"}, Goto(step), pc # "idle",
           UNCHANGED <<objects, project, known, bounds, reported, auth>>,
           Branch', Done' \subseteq Done
    PROVE  IInv'
  <1>1. SecretStep
    BY DEF SecretStep, objects, IInv, TypeOK
  <1>2. UNCHANGED <<cache, deleted, project, known, bounds, reported, auth>>
    BY DEF objects
  <1> QED
    BY <1>1, <1>2, GotoKeeps

LEMMA EndGeneratedKeeps ==
    ASSUME IInv, EndGeneratedSecrets PROVE IInv'
  <1> DEFINE step == IF work.powersync THEN "findStorage" ELSE "findHook"
  <1>1. step \in Steps \ {"idle"} /\ Goto(step) /\ pc = "generated"
    BY DEF EndGeneratedSecrets, Steps
  <1>2. Branch'
    BY <1>1 DEF Branch, Goto
  <1>3. Generated \subseteq Done
    BY <1>1, ConstantsAssumption DEF EndGeneratedSecrets, Done, Generated, IInv, TypeOK
  <1>4. Done' \subseteq Generated
    BY <1>1 DEF Done, Goto
  <1> HIDE DEF step
  <1> QED
    BY <1>1, <1>2, <1>3, <1>4, LookKeeps DEF EndGeneratedSecrets

LEMMA FindKeeps ==
    ASSUME IInv, FindStorage \/ FindReplication \/ FindToken \/ FindHook PROVE IInv'
  <1>1. UNCHANGED <<objects, project, known, bounds, auth>> /\ pc # "idle"
    BY DEF FindStorage, FindReplication, FindToken, FindHook
  <1>2. Branch
    BY DEF IInv, Inv
  <1>3. CASE Fail
    BY <1>1, <1>3, FailKeeps
  <1>4. CASE ~Fail
    <2>1. PICK step \in {"findReplication", "storage", "findToken", "createToken",
                         "adoptToken", "report", "createHook"} :
             /\ Goto(step) /\ UNCHANGED reported
             /\ IF step \in {"report", "createHook"}
                  THEN pc = "findHook"
                  ELSE pc \in {"findStorage", "findReplication", "findToken"}
      BY <1>4 DEF FindStorage, FindReplication, FindToken, FindHook
    <2>2. step \in Steps \ {"idle"}
      BY DEF Steps
    <2>3. Branch'
      BY <1>2, <2>1 DEF Branch, Goto
    <2>4. Done' \subseteq Done
      BY <2>1 DEF Done, Goto
    <2> QED
      BY <1>1, <2>1, <2>2, <2>3, <2>4, LookKeeps
  <1> QED
    BY <1>3, <1>4

LEMMA WriteKeeps ==
    ASSUME IInv,
           EnsureStorage \/ EnsureReplication \/ CreateToken \/ AdoptToken \/ CreateHook
    PROVE  IInv'
  <1>1. TRUE \in BOOLEAN /\ FALSE \in BOOLEAN /\ Branch
    BY DEF IInv, Inv
  <1>2. CASE EnsureStorage
    <2>1. pc' = "replication" /\ work' = work => Branch' /\ Done' \subseteq Done \cup {Storage}
      BY <1>1, <1>2 DEF EnsureStorage, Branch, Done
    <2> QED
      BY <1>1, <1>2, <2>1, SecretsType, EnsureKeeps DEF EnsureStorage, Steps
  <1>3. CASE EnsureReplication
    <2>1. pc' = "findToken" /\ work' = work => Branch' /\ Done' \subseteq Done \cup {Replication}
      BY <1>1, <1>3 DEF EnsureReplication, Branch, Done
    <2> QED
      BY <1>1, <1>3, <2>1, SecretsType, EnsureKeeps DEF EnsureReplication, Steps
  <1>4. CASE CreateToken
    <2>1. pc' = "findHook" /\ work' = work => Branch' /\ Done' \subseteq Done \cup {Token}
      BY <1>1, <1>4 DEF CreateToken, Branch, Done
    <2> QED
      BY <1>1, <1>4, <2>1, SecretsType, EnsureKeeps DEF CreateToken, Steps
  <1>5. CASE AdoptToken
    <2>1. pc' = "findHook" /\ work' = work => Branch' /\ Done' \subseteq Done \cup {Token}
      BY <1>1, <1>5 DEF AdoptToken, Branch, Done
    <2> QED
      BY <1>1, <1>5, <2>1, SecretsType, EnsureKeeps DEF AdoptToken, Steps
  <1>6. CASE CreateHook
    <2>1. pc' = "report" /\ work' = work => Branch' /\ Done' \subseteq Done \cup {Hook}
      BY <1>1, <1>6 DEF CreateHook, Branch, Done
    <2> QED
      BY <1>1, <1>6, <2>1, SecretsType, EnsureKeeps DEF CreateHook, Steps
  <1> QED
    BY <1>2, <1>3, <1>4, <1>5, <1>6

\* The report is about Secrets the pass has dealt with.
LEMMA ReportKeeps ==
    ASSUME IInv, ReportSecretsReady PROVE IInv'
  <1>1. UNCHANGED <<objects, project, known, bounds, auth>> /\ pc = "report"
    BY DEF ReportSecretsReady
  <1>2. CASE Fail
    BY <1>1, <1>2, FailKeeps
  <1>3. CASE Goto("auth") /\ reported' = reported
    <2>1. Branch' /\ Done' \subseteq Done
      BY <1>1, <1>3 DEF Branch, Done, Goto
    <2> QED
      BY <1>1, <1>3, <2>1, LookKeeps DEF Steps
  <1>4. CASE fresh /\ reported' = Needed(work) /\ Goto("auth")
    <2>1. fresh' \in BOOLEAN /\ queued' \in BOOLEAN
      BY <1>4, Zenon DEF Goto, IInv, TypeOK
    <2>2. UNCHANGED <<work, project, known, secret, cache, deleted, incarnations, changes, next, fresh>>
      BY <1>1, <1>4 DEF objects, bounds, Goto
    <2>3. reported' \subseteq Secrets
      BY <1>4, NeededType
    <2>4. TypeOK'
      BY <1>1, <1>4, <2>1, <2>2, <2>3, PassTypes DEF Goto, Steps, IInv, TypeOK
    <2>5. Needed(work) \cap Kept \subseteq Done
      BY <1>1, SecretsType, ConstantsAssumption
         DEF Needed, Kept, Done, Storage, Replication, Token, Hook, Generated
    <2>6. Done' = Done /\ Branch'
      BY <1>1, <1>4, <2>2 DEF Done, Branch, Goto
    <2>7. Order' /\ Owners'
      BY <2>2 DEF IInv, Inv, Order, Owners, Current
    <2>8. Reading'
      BY <1>1, <1>4, <2>2 DEF IInv, Inv, Reading, Goto
    <2>9. Secured'
      BY <2>2, <2>6 DEF IInv, Inv, Secured, Current
    <2>10. project.uid = work.uid /\ project.uid # 0
      BY <1>4 DEF IInv, Inv, Reading
    <2>11. Reported'
      BY <1>4, <2>2, <2>5, <2>10 DEF IInv, Inv, Secured, Reported, Current
    <2> QED
      BY <2>4, <2>6, <2>7, <2>8, <2>9, <2>11 DEF IInv, Inv
  <1> QED
    BY <1>2, <1>3, <1>4 DEF ReportSecretsReady

LEMMA AuthKeeps ==
    ASSUME IInv, BuildAuthDeployment \/ Abort PROVE IInv'
  <1>1. queued \in BOOLEAN /\ TRUE \in BOOLEAN
    BY Zenon DEF IInv, TypeOK
  <1>2. End(TRUE) \/ End(queued)
    BY DEF BuildAuthDeployment, Abort
  <1>3. cache[Hook].value \in Values \cup {NoValue} /\ auth \in Values \cup {NoValue}
    BY SecretsType, FieldTypes DEF IInv, TypeOK
  <1>4. auth' \in Values \cup {NoValue}
    BY <1>3 DEF BuildAuthDeployment, Abort, HookHash
  <1>5. UNCHANGED <<objects, project, known, bounds, reported>>
    BY DEF BuildAuthDeployment, Abort
  <1> QED
    BY <1>1, <1>2, <1>4, <1>5, EndKeeps

-----------------------------------------------------------------------------
(* The steps of the others.                                                *)

LEMMA NoProjectType == NoProject \in Projects /\ NoProject.uid = 0
  <1>1. 0 \in 0..MaxIncarnations
    BY ConstantsAssumption DEF MaxIncarnations
  <1> QED
    BY <1>1 DEF NoProject, Projects

LEMMA DeliverProjectKeeps ==
    ASSUME IInv, DeliverProject PROVE IInv'
  <1>1. queued' \in BOOLEAN
    BY Zenon DEF DeliverProject
  <1>2. /\ known' \in {project, NoProject}
        /\ UNCHANGED <<project, fresh, work, pc, next, secret, cache, deleted,
                       reported, auth, incarnations, changes>>
    BY DEF DeliverProject, pass, objects, bounds
  <1>3. TypeOK'
    BY <1>1, <1>2, NoProjectType DEF IInv, TypeOK
  <1>4. Order'
    BY <1>2, UidTypes, NoProjectType DEF IInv, Inv, Order
  <1>5. Inv'
    BY <1>2, <1>4 DEF IInv, Inv, Reading, Owners, Secured, Done, Branch, Reported, Current
  <1> QED
    BY <1>3, <1>5 DEF IInv

LEMMA DeliverSecretKeeps ==
    ASSUME IInv, NEW s \in Secrets, DeliverSecret(s) PROVE IInv'
  <1>1. queued' \in BOOLEAN
    BY Zenon DEF DeliverSecret, IInv, TypeOK
  <1>2. /\ cache' = [cache EXCEPT ![s] = secret[s]] /\ deleted' = deleted \ {s}
        /\ UNCHANGED <<project, known, fresh, work, pc, next, secret,
                       reported, auth, incarnations, changes>>
    BY DEF DeliverSecret, pass, bounds
  <1>3. cache' \in [Secrets -> Contents] /\ deleted' \subseteq Secrets
    BY <1>2 DEF IInv, TypeOK
  <1>4. TypeOK'
    BY <1>1, <1>2, <1>3 DEF IInv, TypeOK
  <1>5. work.uid \in Nat
    BY UidTypes DEF IInv
  <1>6. Owners'
    BY <1>2, <1>5 DEF IInv, TypeOK, Inv, Owners, Current, Nobody
  <1>7. Inv'
    BY <1>2, <1>6 DEF IInv, Inv, Order, Reading, Secured, Done, Branch, Reported, Current
  <1> QED
    BY <1>4, <1>7 DEF IInv

\* Somebody else makes or deletes a Secret.
LEMMA OthersKeep ==
    ASSUME IInv, NEW s \in Secrets, NEW object \in Contents, object.owner \in {Nobody, Foreign},
           secret' = [secret EXCEPT ![s] = object], deleted' \subseteq Secrets,
           UNCHANGED <<project, known, fresh, pass, queued, cache, reported, auth, incarnations>>,
           changes' \in {changes, changes + 1}, changes' \in 0..MaxChanges
    PROVE  IInv'
  <1>1. SecretStep
    BY OneSecret DEF IInv, Current
  <1>2. Done' = Done /\ Branch'
    BY DEF pass, Done, Branch, IInv, Inv
  <1>3. Inv'
    BY <1>1, <1>2, PassKeeps DEF pass
  <1>4. fresh' \in BOOLEAN /\ queued' \in BOOLEAN
    BY Zenon DEF IInv, TypeOK
  <1>5. TypeOK'
    BY <1>1, <1>4 DEF SecretStep, pass, IInv, TypeOK
  <1> QED
    BY <1>3, <1>5 DEF IInv

LEMMA DeleteKeeps ==
    ASSUME IInv, NEW s \in Secrets, CollectGarbage(s) \/ UserDeletes(s) PROVE IInv'
  <1>1. /\ secret' = [secret EXCEPT ![s] = Absent] /\ deleted' \subseteq Secrets
        /\ UNCHANGED <<project, known, fresh, pass, queued, cache, reported, auth, incarnations>>
    BY DEF CollectGarbage, UserDeletes, Delete, bounds, IInv, TypeOK
  <1>2. changes' \in {changes, changes + 1} /\ changes' \in 0..MaxChanges
    BY ConstantsAssumption DEF CollectGarbage, UserDeletes, UserActs, bounds, IInv, TypeOK
  <1> QED
    BY <1>1, <1>2, AbsentType, OthersKeep

LEMMA UserCreatesKeeps ==
    ASSUME IInv, NEW s \in Secrets, UserCreates(s) PROVE IInv'
  <1>1. PICK v \in FreshValues(s), h \in ByHand :
           secret' = [secret EXCEPT ![s] = [value |-> v, valid |-> h.valid, owner |-> h.owner]]
    BY DEF UserCreates
  <1>2. h.valid \in BOOLEAN /\ h.owner \in {Nobody, Foreign}
    BY DEF ByHand
  <1>3. h.owner \in 0..Foreign /\ v \in Values \cup {NoValue}
    BY <1>2, UidTypes, FreshType DEF IInv
  <1>4. [value |-> v, valid |-> h.valid, owner |-> h.owner] \in Contents
    BY <1>2, <1>3, ContentsType
  <1>5. changes' \in {changes, changes + 1} /\ changes' \in 0..MaxChanges
    BY ConstantsAssumption DEF UserCreates, UserActs, IInv, TypeOK
  <1> QED
    BY <1>1, <1>2, <1>4, <1>5, OthersKeep DEF UserCreates, IInv, TypeOK

LEMMA ProjectType ==
    ASSUME NEW uid \in 0..MaxIncarnations, NEW generation \in Nat, NEW spec \in Specs
    PROVE  /\ Project(uid, generation, spec) \in Projects
           /\ Project(uid, generation, spec).uid = uid
  <1>1. spec.powersync \in BOOLEAN /\ spec.hook \in BOOLEAN
    BY ConstantsAssumption
  <1> QED
    BY <1>1 DEF Project, Projects

LEMMA EditSpecKeeps ==
    ASSUME IInv, EditSpec PROVE IInv'
  <1>1. PICK spec \in Specs : project' = Project(project.uid, project.generation + 1, spec)
    BY DEF EditSpec
  <1>2. project' \in Projects /\ project'.uid = project.uid
    <2>1. project.generation + 1 \in Nat
      BY DEF IInv, TypeOK, Projects
    <2> QED
      BY <1>1, <2>1, ProjectType, UidTypes DEF IInv
  <1>3. fresh' = FALSE /\ UNCHANGED <<known, work, pc, next, queued, secret, cache, deleted,
                                      reported, auth, incarnations>>
    BY DEF EditSpec, pass, objects
  <1>4. fresh' \in BOOLEAN /\ queued' \in BOOLEAN
    BY <1>3, Zenon DEF IInv, TypeOK
  <1>5. changes' = changes + 1 /\ changes' \in 0..MaxChanges
    BY ConstantsAssumption DEF EditSpec, UserActs, IInv, TypeOK
  <1>6. TypeOK'
    BY <1>2, <1>3, <1>4, <1>5 DEF IInv, TypeOK
  <1>7. Order'
    BY <1>2, <1>3, <1>5, UidTypes DEF IInv, Inv, Order
  <1>8. Reading'
    BY <1>3 DEF IInv, Inv, Reading
  <1>9. Inv'
    BY <1>2, <1>3, <1>7, <1>8 DEF IInv, Inv, Owners, Secured, Done, Branch, Reported, Current
  <1> QED
    BY <1>6, <1>9 DEF IInv

LEMMA DeleteProjectKeeps ==
    ASSUME IInv, DeleteProject PROVE IInv'
  <1>1. /\ project' = NoProject /\ fresh' = FALSE /\ reported' = {}
        /\ UNCHANGED <<known, work, pc, next, queued, secret, cache, deleted, auth, incarnations>>
    BY DEF DeleteProject, pass, objects
  <1>2. project' \in Projects /\ project'.uid = 0
    BY <1>1, NoProjectType
  <1>3. fresh' \in BOOLEAN /\ queued' \in BOOLEAN
    BY <1>1, Zenon DEF IInv, TypeOK
  <1>4. changes' = changes + 1 /\ changes' \in 0..MaxChanges
    BY ConstantsAssumption DEF DeleteProject, UserActs, IInv, TypeOK
  <1>5. TypeOK'
    BY <1>1, <1>2, <1>3, <1>4 DEF IInv, TypeOK
  <1>6. Order'
    BY <1>1, <1>2, <1>4, UidTypes DEF DeleteProject, IInv, Inv, Order
  <1>7. Reading' /\ Reported'
    BY <1>1 DEF IInv, Inv, Reading, Reported
  <1>8. Inv'
    BY <1>1, <1>6, <1>7 DEF IInv, Inv, Owners, Secured, Done, Branch, Current
  <1> QED
    BY <1>5, <1>8 DEF IInv

LEMMA RecreateProjectKeeps ==
    ASSUME IInv, RecreateProject PROVE IInv'
  <1>1. /\ project.uid = 0 /\ incarnations' = incarnations + 1
        /\ UNCHANGED <<known, fresh, work, pc, next, queued, secret, cache, deleted,
                       reported, auth, changes>>
    BY DEF RecreateProject, pass, objects
  <1>2. incarnations' \in 1..MaxIncarnations
    BY <1>1, ConstantsAssumption DEF IInv, TypeOK, Inv, Order, MaxIncarnations
  <1>3. PICK spec \in Specs : project' = Project(incarnations', 1, spec)
    BY DEF RecreateProject
  <1>4. incarnations' \in 0..MaxIncarnations
    BY <1>2
  <1>5. project' \in Projects /\ project'.uid = incarnations'
    BY <1>3, <1>4, ProjectType
  <1>6. fresh' \in BOOLEAN /\ queued' \in BOOLEAN
    BY <1>1, Zenon DEF IInv, TypeOK
  <1>7. TypeOK'
    BY <1>1, <1>2, <1>5, <1>6 DEF IInv, TypeOK
  <1>8. Order'
    BY <1>1, <1>2, <1>5, UidTypes DEF IInv, Inv, Order
  <1>9. Reading' /\ Reported'
    BY <1>1 DEF IInv, Inv, Reading, Reported
  <1>10. Inv'
    BY <1>1, <1>8, <1>9 DEF IInv, Inv, Owners, Secured, Done, Branch, Current
  <1> QED
    BY <1>7, <1>10 DEF IInv

-----------------------------------------------------------------------------
(* The theorems.                                                           *)

LEMMA InitInv == Init => IInv
  <1> SUFFICES ASSUME Init PROVE IInv
    OBVIOUS
  <1>1. 1 \in 1..MaxIncarnations /\ 1 \in 0..MaxIncarnations /\ 0 \in 0..MaxChanges
        /\ 1 \in 1..(NumGenerated + 1)
    BY ConstantsAssumption DEF MaxIncarnations
  <1>2. PICK spec \in Specs : project = Project(1, 1, spec)
    BY DEF Init
  <1>3. project \in Projects /\ project.uid = 1
    BY <1>1, <1>2, ProjectType
  <1>4. secret \in [Secrets -> Contents] /\ cache \in [Secrets -> Contents]
        /\ \A s \in Secrets : secret[s].owner = Nobody /\ cache[s].owner = Nobody
    BY AbsentType DEF Init
  <1>5. fresh \in BOOLEAN /\ queued \in BOOLEAN
    BY Zenon DEF Init
  <1>6. TypeOK
    BY <1>1, <1>3, <1>4, <1>5, NoProjectType DEF Init, TypeOK
  <1>7. Order
    BY <1>3, NoProjectType DEF Init, Order
  <1>8. Reading /\ Branch /\ Secured /\ Reported
    BY DEF Init, Reading, Branch, Secured, Done, Reported
  <1>9. Owners
    BY <1>4 DEF Owners, Current
  <1> QED
    BY <1>6, <1>7, <1>8, <1>9 DEF IInv, Inv

LEMMA NextInv == IInv /\ [Next]_vars => IInv'
  <1> SUFFICES ASSUME IInv, [Next]_vars PROVE IInv'
    OBVIOUS
  <1>1. CASE UNCHANGED vars
    <2>1. TypeOK'
      BY <1>1 DEF IInv, TypeOK, vars, pass, objects, bounds
    <2>2. Inv'
      BY <1>1 DEF IInv, Inv, Order, Reading, Owners, Secured, Done, Branch, Reported, Current,
                  vars, pass, objects, bounds
    <2> QED
      BY <2>1, <2>2 DEF IInv
  <1>2. CASE Reconciler
    BY <1>2, StartKeeps, GeneratedKeeps, EndGeneratedKeeps, FindKeeps, WriteKeeps,
       ReportKeeps, AuthKeeps DEF Reconciler
  <1>3. CASE DeliverProject \/ EditSpec \/ DeleteProject \/ RecreateProject
    BY <1>3, DeliverProjectKeeps, EditSpecKeeps, DeleteProjectKeeps, RecreateProjectKeeps
  <1>4. ASSUME NEW s \in Secrets,
               DeliverSecret(s) \/ CollectGarbage(s) \/ UserDeletes(s) \/ UserCreates(s)
        PROVE  IInv'
    BY <1>4, DeliverSecretKeeps, DeleteKeeps, UserCreatesKeeps
  <1> QED
    BY <1>1, <1>2, <1>3, <1>4 DEF Next

LEMMA Invariance == Spec => []IInv
  BY InitInv, NextInv, PTL DEF Spec

\* The variables of reconcileImplementationSecrets keep their types.
THEOREM TypeCorrect == Spec => []TypeOK
  <1>1. IInv => TypeOK
    BY DEF IInv
  <1> QED
    BY <1>1, Invariance, PTL

\* A generated Secret or token that SecretsReady=True is about is never the
\* garbage collector's, over any number of recreated projects and however far
\* the cache of Secrets is behind (createOrUpdateSecret).
THEOREM ReportedKept == Spec => []ReportedNotCollectable
  <1>1. IInv => ReportedNotCollectable
    BY UidTypes DEF IInv, Inv, Reported, ReportedNotCollectable, Collectable, Owned, Current
  <1> QED
    BY <1>1, Invariance, PTL

-----------------------------------------------------------------------------
(* Rest.                                                                   *)

LEMMA WrittenExists ==
    ASSUME TypeOK, NEW s \in Secrets, NEW valid \in BOOLEAN, NEW object \in Written(s, valid)
    PROVE  /\ Exists(object)
           /\ object = cache[s] => Exists(cache[s]) /\ cache[s].owner = work.uid
           /\ object.valid = valid \/ (Exists(cache[s]) /\ object.valid = cache[s].valid)
  <1>1. cache[s] \in Contents
    BY DEF TypeOK
  <1>2. CASE Exists(cache[s])
    <2>1. object = [cache[s] EXCEPT !.owner = work.uid]
      BY <1>2 DEF Written
    <2>2. object.value = cache[s].value /\ object.valid = cache[s].valid /\ object.owner = work.uid
      BY <1>1, <2>1 DEF Contents
    <2> QED
      BY <1>2, <2>2 DEF Exists
  <1>3. CASE ~Exists(cache[s])
    <2>1. PICK v \in FreshValues(s) : object = Made(v, valid)
      BY <1>3 DEF Written
    <2>2. v # cache[s].value
      BY DEF FreshValues
    <2>3. object.value = v /\ object.valid = valid
      BY <2>1 DEF Made
    <2> QED
      BY <1>3, <2>2, <2>3 DEF Exists
  <1> QED
    BY <1>2, <1>3

LEMMA OwnedWork ==
    ASSUME IInv, work.uid # 0, NEW object, object.owner = work.uid
    PROVE  Owned(object)
  BY UidTypes DEF IInv, Owned

\* createOrUpdateSecret leaves its Secret as it should be or an event to come.
LEMMA CreateNotes ==
    ASSUME IInv, NEW s \in Secrets, NEW valid \in BOOLEAN, CreateOrUpdateSecret(s, valid),
           work' = work,
           s = Token /\ Exists(cache[s]) /\ cache[s].owner = work.uid => cache[s].valid = TRUE
    PROVE  /\ \A t \in Secrets : Noted(t) \/ t = s => Noted(t)'
           /\ UNCHANGED <<cache, deleted, auth>>
  <1>1. TypeOK
    BY DEF IInv
  <1>2. UNCHANGED <<cache, deleted, auth>>
    BY DEF CreateOrUpdateSecret
  <1>3. CASE cache[s] \in Written(s, valid)
    <2>1. secret' = secret
      BY <1>3 DEF CreateOrUpdateSecret
    <2>2. Good(s)
      BY <1>1, <1>3, WrittenExists DEF Good
    <2> QED
      BY <1>2, <2>1, <2>2 DEF Noted, Good
  <1>4. CASE cache[s] \notin Written(s, valid)
    <2>1. PICK object \in Written(s, valid) : secret' = [secret EXCEPT ![s] = object]
      BY <1>4 DEF CreateOrUpdateSecret
    <2>2. Exists(object) /\ object.owner = work.uid /\ object # cache[s]
      BY <1>1, <1>4, WrittenExists, WrittenType
    <2>3. secret'[s] = object /\ \A t \in Secrets : t # s => secret'[t] = secret[t]
      BY <1>1, <2>1 DEF TypeOK
    <2> QED
      BY <1>2, <2>2, <2>3 DEF Noted, Good
  <1> QED
    BY <1>2, <1>3, <1>4

\* Nothing is claimed while the key is queued or there is no project.
LEMMA Vacuous ==
    ASSUME queued' # FALSE \/ known'.uid = 0 PROVE Undisturbed'
  BY DEF Undisturbed

LEMMA OthersNoted ==
    ASSUME TypeOK, NEW s \in Secrets, NEW valid \in BOOLEAN, CreateOrUpdateSecret(s, valid),
           work' = work
    PROVE  \A t \in Secrets : t # s /\ Noted(t) => Noted(t)'
  <1>1. UNCHANGED <<cache, deleted>>
    BY DEF CreateOrUpdateSecret
  <1>2. \A t \in Secrets : t # s => secret'[t] = secret[t]
    BY DEF CreateOrUpdateSecret, TypeOK
  <1> QED
    BY <1>1, <1>2 DEF Noted, Good

\* The pass moves on with the same cache.
LEMMA MovesOn ==
    ASSUME Undisturbed, UNCHANGED <<work, known, cache, auth>>, queued' = queued, pc' # "idle",
           \A s \in Behind' : Noted(s)' \/ ~(queued = FALSE /\ known.uid # 0),
           \/ pc' \notin {"createToken", "adoptToken"}
           \/ cache[Token].valid = TRUE
           \/ ~Exists(cache[Token])
    PROVE  Undisturbed'
  <1> SUFFICES ASSUME queued' = FALSE, known'.uid # 0 PROVE Undisturbed'
    BY Vacuous
  <1>1. (work = known)'
    BY DEF Undisturbed
  <1>2. \A s \in Behind' : Noted(s)'
    OBVIOUS
  <1>3. ((pc \in {"createToken", "adoptToken"} /\ Exists(cache[Token]) /\ Owned(cache[Token]))
             => cache[Token].valid = TRUE)'
    BY DEF Exists
  <1> QED
    BY <1>1, <1>2, <1>3 DEF Undisturbed

\* Nothing but the pass and the status changes.
LEMMA LooksOn ==
    ASSUME Undisturbed, NEW step, Goto(step), step # "idle", pc # "idle",
           UNCHANGED <<known, objects, auth>>,
           Done' \subseteq Done,
           \/ step \notin {"createToken", "adoptToken"}
           \/ cache[Token].valid = TRUE
           \/ ~Exists(cache[Token])
    PROVE  Undisturbed'
  <1>1. UNCHANGED <<work, known, cache, secret, deleted, auth, queued>> /\ pc' = step
    BY DEF Goto, objects
  <1>2. Behind = Done /\ Behind' = Done'
    BY <1>1 DEF Behind
  <1>3. \A s : Noted(s)' = Noted(s)
    BY <1>1 DEF Noted, Good
  <1>4. queued = FALSE /\ known.uid # 0 => \A s \in Behind : Noted(s)
    BY DEF Undisturbed
  <1> QED
    BY <1>1, <1>2, <1>3, <1>4, MovesOn

LEMMA FailDisturbs ==
    ASSUME Fail \/ End(TRUE) PROVE Undisturbed'
  <1>1. queued' = TRUE
    BY Zenon DEF Fail, End
  <1> QED
    BY <1>1, Vacuous

LEMMA StartUndisturbed ==
    ASSUME IInv, Start PROVE Undisturbed'
  <1>1. CASE known.uid = 0
    BY <1>1, Vacuous DEF Start
  <1>2. CASE known.uid # 0
    <2>1. work' = known /\ known' = known /\ pc' = "generated" /\ next' = 1
      BY <1>2 DEF Start
    <2>2. Behind' = {}
      BY <2>1 DEF Behind, Done, Generated
    <2> QED
      BY <2>1, <2>2 DEF Undisturbed
  <1> QED
    BY <1>1, <1>2

LEMMA LookUndisturbed ==
    ASSUME IInv, Undisturbed,
           EndGeneratedSecrets \/ FindStorage \/ FindReplication \/ FindToken \/ FindHook
           \/ ReportSecretsReady
    PROVE  Undisturbed'
  <1>1. CASE EndGeneratedSecrets
    <2>1. Done = Generated
      BY <1>1, ConstantsAssumption DEF EndGeneratedSecrets, Done, Generated, IInv, TypeOK
    <2>2. Done' = Generated
      BY <1>1 DEF EndGeneratedSecrets, Goto, Done
    <2> QED
      BY <1>1, <2>1, <2>2, LooksOn DEF EndGeneratedSecrets
  <1>2. CASE FindStorage \/ FindReplication
    <2>1. Done' = Generated /\ Done = Generated
      BY <1>2 DEF FindStorage, FindReplication, Goto, Done
    <2> QED
      BY <1>2, <2>1, LooksOn DEF FindStorage, FindReplication
  <1>3. CASE FindToken
    <2>1. CASE Fail
      BY <2>1, FailDisturbs
    <2>2. CASE ~Fail
      <3>1. \/ Goto("createToken") /\ ~Exists(cache[Token])
            \/ Goto("adoptToken") /\ cache[Token].valid = TRUE
        <4>1. cache[Token] \in Contents
          BY SecretsType DEF IInv, TypeOK
        <4> QED
          BY <1>3, <2>2, <4>1, FieldTypes, Zenon DEF FindToken
      <3>2. Done' = Done
        BY <1>3, <3>1 DEF FindToken, Goto, Done
      <3> QED
        BY <1>3, <3>1, <3>2, LooksOn DEF FindToken
    <2> QED
      BY <2>1, <2>2
  <1>4. CASE FindHook
    <2>1. CASE Fail
      BY <2>1, FailDisturbs
    <2>2. CASE ~Fail
      <3>1. Goto("report") \/ Goto("createHook")
        BY <1>4, <2>2 DEF FindHook
      <3>2. Done' = Done
        BY <1>4, <3>1 DEF FindHook, Goto, Done
      <3> QED
        BY <1>4, <3>1, <3>2, LooksOn DEF FindHook
    <2> QED
      BY <2>1, <2>2
  <1>5. CASE ReportSecretsReady
    <2>1. CASE Fail
      BY <2>1, FailDisturbs
    <2>2. CASE ~Fail
      <3>1. Goto("auth")
        BY <1>5, <2>2 DEF ReportSecretsReady
      <3>2. Done' = Done
        BY <1>5, <3>1 DEF ReportSecretsReady, Goto, Done
      <3> QED
        BY <1>5, <3>1, <3>2, LooksOn DEF ReportSecretsReady
    <2> QED
      BY <2>1, <2>2
  <1> QED
    BY <1>1, <1>2, <1>3, <1>4, <1>5

\* createOrUpdateSecret for a Secret that the pass has not dealt with.
LEMMA EnsureUndisturbed ==
    ASSUME IInv, Undisturbed, NEW s \in Secrets, NEW valid \in BOOLEAN, NEW step,
           EnsureSecret(s, valid, step), pc # "idle",
           step \notin {"idle", "createToken", "adoptToken"}, s \notin Done,
           pc' = step => Done' \subseteq Done \cup {s},
           pc' = step /\ s = Token /\ queued = FALSE /\ known.uid # 0 =>
               (Exists(cache[s]) /\ cache[s].owner = work.uid => cache[s].valid = TRUE)
    PROVE  Undisturbed'
  <1>1. CASE RefuseSecret(s, valid)
    BY <1>1, FailDisturbs DEF RefuseSecret
  <1>2. CASE CreateOrUpdateSecret(s, valid) /\ Goto(step)
    <2>1. UNCHANGED <<work, known, cache, deleted, auth, queued>> /\ pc' = step
      BY <1>2 DEF EnsureSecret, CreateOrUpdateSecret, Goto
    <2>2. Behind = Done /\ Behind' = Done'
      BY <2>1 DEF Behind
    <2>3. Done \subseteq Secrets
      BY SecretsType DEF Done
    <2>4. ASSUME NEW t \in Behind', queued = FALSE, known.uid # 0
          PROVE  Noted(t)'
      <3>1. t \in Done \/ t = s
        BY <2>1, <2>2
      <3>2. CASE t \in Done
        <4>1. Noted(t) /\ t \in Secrets /\ t # s
          BY <2>2, <2>3, <2>4, <3>2 DEF Undisturbed
        <4> QED
          BY <1>2, <2>1, <4>1, OthersNoted DEF IInv
      <3>3. CASE t = s
        BY <1>2, <2>1, <2>2, <2>4, <3>3, CreateNotes
      <3> QED
        BY <3>1, <3>2, <3>3
    <2> QED
      BY <2>1, <2>4, MovesOn
  <1> QED
    BY <1>1, <1>2 DEF EnsureSecret

LEMMA GeneratedUndisturbed ==
    ASSUME IInv, Undisturbed, ReconcileGeneratedSecrets
    PROVE  Undisturbed'
  <1>1. next \in Generated /\ next \in Secrets /\ pc = "generated" /\ TRUE \in BOOLEAN
    BY SecretsType, ConstantsAssumption DEF ReconcileGeneratedSecrets, Generated, IInv, TypeOK
  <1>2. CASE RefuseSecret(next, TRUE)
    BY <1>2, FailDisturbs DEF RefuseSecret
  <1>3. CASE /\ CreateOrUpdateSecret(next, TRUE) /\ next' = next + 1
             /\ UNCHANGED <<work, fresh, pc, queued>>
    <2>1. UNCHANGED <<work, known, cache, deleted, auth, queued>> /\ pc' = "generated"
      BY <1>1, <1>3 DEF ReconcileGeneratedSecrets, CreateOrUpdateSecret
    <2>2. next # Token
      BY <1>1, SecretsType
    <2>3. \A t \in Secrets : Noted(t) \/ t = next => Noted(t)'
      BY <1>1, <1>3, <2>1, <2>2, CreateNotes
    <2>4. Behind = {s \in Generated : s < next} /\ Behind' = {s \in Generated : s < next + 1}
      BY <1>1, <1>3, <2>1 DEF Behind, Done
    <2>5. \A s \in Behind' : s \in Secrets /\ (s \in Behind \/ s = next)
      BY <1>1, <2>4, SecretsType DEF Generated
    <2>6. queued = FALSE /\ known.uid # 0 => \A s \in Behind : Noted(s)
      BY DEF Undisturbed
    <2> QED
      BY <2>1, <2>3, <2>5, <2>6, MovesOn
  <1> QED
    BY <1>2, <1>3 DEF ReconcileGeneratedSecrets

LEMMA WriteUndisturbed ==
    ASSUME IInv, Undisturbed,
           EnsureStorage \/ EnsureReplication \/ CreateToken \/ AdoptToken \/ CreateHook
    PROVE  Undisturbed'
  <1>0. /\ Storage \in Secrets /\ Replication \in Secrets /\ Token \in Secrets /\ Hook \in Secrets
        /\ {Storage, Replication, Token, Hook} \cap Generated = {} /\ Token \notin {Storage, Replication, Hook}
        /\ TRUE \in BOOLEAN /\ FALSE \in BOOLEAN
    BY SecretsType, ConstantsAssumption DEF Generated, Storage, Replication, Token, Hook
  <1>1. CASE EnsureStorage
    <2>1. Done = Generated /\ (pc' = "replication" => Done' = Generated)
      BY <1>1 DEF EnsureStorage, Done
    <2> QED
      BY <1>0, <1>1, <2>1, EnsureUndisturbed DEF EnsureStorage
  <1>2. CASE EnsureReplication
    <2>1. Done = Generated /\ (pc' = "findToken" => Done' = Generated)
      BY <1>2 DEF EnsureReplication, Done
    <2> QED
      BY <1>0, <1>2, <2>1, EnsureUndisturbed DEF EnsureReplication
  <1>3. CASE CreateToken \/ AdoptToken
    <2>1. pc \in {"createToken", "adoptToken"} /\ Done = Generated
      BY <1>3 DEF CreateToken, AdoptToken, Done
    <2>2. pc' = "findHook" => Done' \subseteq Generated \cup {Token}
      BY DEF Done
    <2>3. work.uid # 0
      BY <2>1 DEF IInv, Inv, Reading
    <2>4. queued = FALSE /\ known.uid # 0 =>
             (Exists(cache[Token]) /\ cache[Token].owner = work.uid => cache[Token].valid = TRUE)
      BY <2>1, <2>3, OwnedWork DEF Undisturbed
    <2>5. EnsureSecret(Token, TRUE, "findHook") \/ EnsureSecret(Token, FALSE, "findHook")
      BY <1>3 DEF CreateToken, AdoptToken
    <2> QED
      BY <1>0, <2>1, <2>2, <2>4, <2>5, EnsureUndisturbed
  <1>4. CASE CreateHook
    <2>1. Done \subseteq Generated \cup {Token}
      BY <1>4 DEF CreateHook, Done
    <2>2. pc' = "report" => Done' \subseteq Done
      <3>1. work' = work
        BY <1>4 DEF CreateHook, EnsureSecret, Goto, RefuseSecret, Fail, End
      <3> QED
        BY <1>4, <3>1 DEF CreateHook, Done
    <2>3. Hook \notin Done /\ (pc' = "report" => Hook \notin Done')
      BY <1>0, <2>1, <2>2
    <2> QED
      BY <1>0, <1>4, <2>2, <2>3, EnsureUndisturbed DEF CreateHook
  <1> QED
    BY <1>1, <1>2, <1>3, <1>4

\* buildAuthDeployment ends the pass with the hook's value in the template.
LEMMA AuthUndisturbed ==
    ASSUME IInv, Undisturbed, BuildAuthDeployment
    PROVE  Undisturbed'
  <1>1. CASE End(TRUE)
    BY <1>1, FailDisturbs
  <1>2. CASE End(queued) /\ auth' = IF work.hook THEN HookHash ELSE NoValue
    <2>1. UNCHANGED <<work, known, cache, secret, deleted>> /\ pc = "auth" /\ pc' = "idle"
      BY <1>2 DEF BuildAuthDeployment, End, objects
    <2>2. queued' = queued
      BY <1>2, Zenon DEF End
    <2>3. Behind' \subseteq Behind
      <3>1. /\ {Storage, Replication, Hook} \cap Kept = {} /\ Token \notin Generated
            /\ Token # Hook
        BY ConstantsAssumption DEF Kept, Generated, Storage, Replication, Token, Hook
      <3>2. Behind' = Needed(work) \cap Kept
        BY <2>1 DEF Behind, Needed
      <3>3. Behind = Generated \cup (IF work.powersync THEN {Token} ELSE {})
        BY <2>1 DEF Behind, Done
      <3> QED
        BY <3>1, <3>2, <3>3 DEF Needed, Kept
    <2>4. \A s : Noted(s)' = Noted(s)
      BY <2>1 DEF Noted, Good
    <2>5. /\ work.hook => auth' = cache[Hook].value
          /\ ~work.hook => auth' = NoValue
      BY <1>2 DEF HookHash
    <2> QED
      BY <2>1, <2>2, <2>3, <2>4, <2>5 DEF Undisturbed
  <1> QED
    BY <1>1, <1>2 DEF BuildAuthDeployment

\* A change of the stored Secrets alone keeps what the watch has to report.
LEMMA OutsideUndisturbed ==
    ASSUME Undisturbed, UNCHANGED <<known, pass, queued, cache, auth>>,
           Behind \subseteq Secrets,
           work.uid # 0 \/ known.uid = 0,
           \A s \in Secrets : work.uid # 0 /\ Noted(s) => Noted(s)'
    PROVE  Undisturbed'
  <1>1. Behind' = Behind
    BY DEF Behind, Done, pass
  <1>2. work' = work /\ pc' = pc
    BY DEF pass
  <1> QED
    BY <1>1, <1>2 DEF Undisturbed

LEMMA BehindSecrets == Behind \subseteq Secrets
  BY SecretsType DEF Behind, Done

\* The same pass with the same Secrets.
LEMMA SamePass ==
    ASSUME Undisturbed, UNCHANGED <<known, pass, queued, objects, auth>>
    PROVE  Undisturbed'
  <1>1. Behind' = Behind
    BY DEF Behind, Done, pass
  <1>2. work' = work /\ pc' = pc
    BY DEF pass
  <1>3. \A s : Noted(s)' = Noted(s)
    BY <1>2 DEF Noted, Good, objects
  <1> QED
    BY <1>1, <1>2, <1>3 DEF Undisturbed, objects

LEMMA DeliverSecretUndisturbed ==
    ASSUME IInv, Undisturbed, NEW s \in Secrets, DeliverSecret(s)
    PROVE  Undisturbed'
  <1> SUFFICES ASSUME queued' = FALSE, known'.uid # 0 PROVE Undisturbed'
    BY Vacuous
  <1>1. /\ queued = FALSE /\ s \notin deleted
        /\ ~Owned(cache[s]) /\ ~Owned(secret[s])
    BY Zenon DEF DeliverSecret, IInv, TypeOK
  <1>2. UNCHANGED <<work, known, pc, next, secret, auth>> /\ deleted' = deleted
    BY <1>1 DEF DeliverSecret, pass
  <1>3. work = known /\ work.uid # 0
    BY <1>1, <1>2 DEF Undisturbed
  <1>4. cache'[s] = secret[s] /\ \A t \in Secrets : t # s => cache'[t] = cache[t]
    BY DEF DeliverSecret, IInv, TypeOK
  <1>5. ~Noted(s)
    BY <1>1, <1>3, OwnedWork DEF Noted, Good
  <1>6. \A t \in Secrets : t # s => Noted(t)' = Noted(t)
    BY <1>2, <1>4 DEF Noted, Good
  <1>7. Behind' = Behind /\ Behind \subseteq Secrets
    BY <1>2, BehindSecrets DEF Behind, Done
  <1>8. \A t \in Behind' : Noted(t)'
    BY <1>1, <1>2, <1>3, <1>5, <1>6, <1>7 DEF Undisturbed
  <1>9. Owned(cache'[s]) = FALSE
    BY <1>1, <1>4
  <1>10. Token \in Secrets /\ Hook \in Secrets
    BY SecretsType
  <1>11. \A t \in {Token, Hook} : Owned(cache[t])' => cache'[t] = cache[t]
    BY <1>4, <1>9, <1>10 DEF Owned
  <1> QED
    BY <1>1, <1>2, <1>3, <1>8, <1>11 DEF Undisturbed

LEMMA DeleteUndisturbed ==
    ASSUME IInv, Undisturbed, NEW s \in Secrets, CollectGarbage(s) \/ UserDeletes(s)
    PROVE  Undisturbed'
  <1>1. /\ UNCHANGED <<known, pass, queued, cache, auth>> /\ Delete(s)
        /\ work' = work
    BY DEF CollectGarbage, UserDeletes, pass
  <1>2. secret' = [secret EXCEPT ![s] = Absent] /\ deleted \subseteq deleted'
    BY <1>1 DEF Delete
  <1>3. ASSUME NEW t \in Secrets, work.uid # 0, Noted(t) PROVE Noted(t)'
    <2>1. CASE t # s
      <3>1. secret'[t] = secret[t]
        BY <1>2, <2>1 DEF IInv, TypeOK
      <3> QED
        BY <1>1, <1>2, <1>3, <3>1 DEF Noted, Good
    <2>2. CASE t = s
      <3>1. CASE Good(t) \/ t \in deleted
        BY <1>1, <1>2, <3>1 DEF Noted, Good
      <3>2. CASE secret[t].owner = work.uid
        <4>1. Owned(secret[s])
          BY <1>3, <2>2, <3>2, OwnedWork
        <4> QED
          BY <1>1, <2>2, <4>1 DEF Delete, Noted
      <3> QED
        BY <1>3, <3>1, <3>2 DEF Noted
    <2> QED
      BY <2>1, <2>2
  <1>4. CASE queued = FALSE /\ known.uid # 0
    <2>1. work.uid # 0
      BY <1>4 DEF Undisturbed
    <2> QED
      BY <1>1, <1>3, <2>1, BehindSecrets, OutsideUndisturbed
  <1>5. CASE ~(queued = FALSE /\ known.uid # 0)
    BY <1>1, <1>5, Vacuous
  <1> QED
    BY <1>4, <1>5

LEMMA UserCreatesUndisturbed ==
    ASSUME IInv, Undisturbed, NEW s \in Secrets, UserCreates(s)
    PROVE  Undisturbed'
  <1>1. UNCHANGED <<known, pass, queued, cache, auth, deleted>> /\ work' = work
    BY DEF UserCreates, pass
  <1>2. ~Exists(secret[s]) /\ \A t \in Secrets : t # s => secret'[t] = secret[t]
    BY DEF UserCreates, IInv, TypeOK
  <1>3. \A t \in Secrets : Noted(t) => Noted(t)'
    BY <1>1, <1>2 DEF Noted, Good
  <1>4. CASE queued = FALSE /\ known.uid # 0
    <2>1. work.uid # 0
      BY <1>4 DEF Undisturbed
    <2> QED
      BY <1>1, <1>3, <2>1, BehindSecrets, OutsideUndisturbed
  <1>5. CASE ~(queued = FALSE /\ known.uid # 0)
    BY <1>1, <1>5, Vacuous
  <1> QED
    BY <1>4, <1>5

LEMMA UndisturbedStep ==
    ASSUME IInv, Undisturbed, [Next]_vars
    PROVE  Undisturbed'
  <1>1. CASE Reconciler
    <2>1. CASE Abort
      BY <2>1, FailDisturbs DEF Abort
    <2> QED
      BY <1>1, <2>1, StartUndisturbed, GeneratedUndisturbed, LookUndisturbed,
         WriteUndisturbed, AuthUndisturbed DEF Reconciler
  <1>2. CASE DeliverProject
    <2>1. queued' = TRUE
      BY <1>2 DEF DeliverProject
    <2> QED
      BY <2>1, Vacuous
  <1>3. CASE EditSpec \/ DeleteProject \/ RecreateProject \/ UNCHANGED vars
    BY <1>3, SamePass DEF EditSpec, DeleteProject, RecreateProject, vars
  <1>4. ASSUME NEW s \in Secrets,
               DeliverSecret(s) \/ CollectGarbage(s) \/ UserDeletes(s) \/ UserCreates(s)
        PROVE  Undisturbed'
    BY <1>4, DeliverSecretUndisturbed, DeleteUndisturbed, UserCreatesUndisturbed
  <1> QED
    BY <1>1, <1>2, <1>3, <1>4 DEF Next

LEMMA RestInvariance == Spec => [](IInv /\ Undisturbed)
  <1>1. Init => Undisturbed
    <2> SUFFICES ASSUME Init PROVE Undisturbed
      OBVIOUS
    <2>1. known.uid = 0
      BY DEF Init, NoProject
    <2> QED
      BY <2>1 DEF Undisturbed
  <1>2. IInv /\ Undisturbed /\ [Next]_vars => (IInv /\ Undisturbed)'
    BY NextInv, UndisturbedStep
  <1> QED
    BY <1>1, <1>2, InitInv, PTL DEF Spec

\* At rest the project owns the Secrets the operator generated for it and the
\* token is valid, whatever happened to the project, to the Secrets and to the
\* calls of the passes before (reconcileImplementationSecrets).
THEOREM CompleteAtRest == Spec => []RestsComplete
  <1>1. IInv /\ Undisturbed => RestsComplete
    <2> SUFFICES ASSUME IInv, Undisturbed, AtRest, project.uid # 0,
                        NEW s \in Needed(project) \cap Kept
                 PROVE  /\ Exists(secret[s]) /\ secret[s].owner = project.uid
                        /\ s = Token => secret[s].valid
      BY DEF RestsComplete
    <2>1. /\ queued = FALSE /\ known = project /\ known.uid # 0 /\ pc = "idle"
          /\ cache = secret /\ deleted = {}
      BY Zenon DEF AtRest, IInv, TypeOK
    <2>2. work = project /\ Noted(s)
      BY <2>1 DEF Undisturbed, Behind
    <2> QED
      BY <2>1, <2>2 DEF Noted, Good
  <1> QED
    BY <1>1, RestInvariance, PTL

\* At rest the template of Auth carries the hash of the email-hook Secret the
\* operator generated for this project, and none without a hook
\* (buildAuthDeployment).
THEOREM RolledAtRest == Spec => []RestsRolled
  <1>1. IInv /\ Undisturbed => RestsRolled
    <2> SUFFICES ASSUME IInv, Undisturbed, AtRest, project.uid # 0
                 PROVE  /\ project.hook /\ secret[Hook].owner = project.uid
                              => auth = secret[Hook].value
                        /\ ~project.hook => auth = NoValue
      BY DEF RestsRolled
    <2>1. queued = FALSE /\ known = project /\ known.uid # 0 /\ pc = "idle" /\ cache = secret
      BY Zenon DEF AtRest, IInv, TypeOK
    <2>2. work = project
      BY <2>1 DEF Undisturbed
    <2>3. secret[Hook].owner = project.uid => Owned(cache[Hook])
      BY <2>1, <2>2, OwnedWork
    <2> QED
      BY <2>1, <2>2, <2>3 DEF Undisturbed
  <1> QED
    BY <1>1, RestInvariance, PTL
=============================================================================
