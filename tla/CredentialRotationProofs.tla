---------------------- MODULE CredentialRotationProofs ----------------------
(***************************************************************************)
(* What a rotation keeps for any number of runs of the wizard and any      *)
(* behaviour of the terminal.                                              *)
(*                                                                         *)
(* AcceptedIsWhole is about what is stored; whether a field may be stored  *)
(* beside the others depends on where the clipboard comes from.  The       *)
(* argument: a field that belongs under the key it is saved under is of    *)
(* the present run, or the terminal has obeyed nothing in this run so that *)
(* all fields saved in it are one and the same old value (Stale).  A key   *)
(* and a token of one run therefore have only fields of that run, or       *)
(* unusable ones, between them (Between).                                  *)
(***************************************************************************)
EXTENDS CredentialRotation, ApiGatewayProofs, TLAPS

Places == 1..5

\* v was made for place i by run r; v is usable at place i.
Is(v, i, r) == v.field = Fields[i] /\ v.run = r
Usable(v, i) == v.field = Fields[i]

At(i) == stored[Fields[i]]

\* The places the person has saved in the present run.
Saved(i) ==
    /\ pc # "off"
    /\ i < at \/ (i = at /\ (pasted = TRUE \/ pc \in {"clear", "confirm", "final"}))

\* A run makes its fields one after the other.
Made(v) ==
    /\ v.run <= run
    /\ \A i \in Places :
          pc # "off" /\ Is(v, i, run) => i <= at /\ (pc \in {"open", "copy"} => i < at)

InOrder == Made(clipboard) /\ \A i \in Places : Made(At(i))

\* What is in the clipboard has not been followed by a later field of its run.
Latest ==
    \A i, j \in Places : \A r \in Runs :
       Is(clipboard, i, r) /\ i < j => ~Is(At(j), j, r)

\* An old field in the clipboard is all that was saved in this run.
Stale ==
    (pc # "off" /\ clipboard.field \in FieldNames /\ clipboard.run < run) =>
       \A i \in Places : Saved(i) => At(i) = clipboard

\* An old signing key saved in this run has no later field of its run beside it.
OldKey ==
    \A j \in Places : \A r \in Runs :
       Saved(1) /\ r < run /\ Is(At(1), 1, r) /\ 1 < j => ~Is(At(j), j, r)

\* With the key of this run, what else was saved is of this run or unusable.
NewKey ==
    (pc # "off" /\ Is(At(1), 1, run)) =>
       \A i \in Places : Saved(i) /\ Usable(At(i), i) => At(i).run = run

Between ==
    \A i, j \in Places : \A r \in Runs :
       (1 < i /\ i < j /\ Is(At(1), 1, r) /\ Is(At(j), j, r) /\ Usable(At(i), i))
           => At(i).run = r

\* Where the run is.
Steps ==
    /\ pc \in {"off", "open"} => at = 1
    /\ pc # "wait" => pasted = FALSE
    /\ pc \in {"confirm", "final"} => at = 5
    /\ pc = "off" => handler = "waiting"

Core == InOrder /\ Latest /\ Stale /\ OldKey /\ NewKey /\ Between
Inv == slips = 0 => Core

\* The handler clears the clipboard, and so does every other way out.
Cleared == clipboard = Empty \/ reported = TRUE \/ overtaken = TRUE \/ ignored = TRUE
Clear == (pc = "off" \/ handler = "exit") => Cleared

IInv == TypeOK /\ Steps /\ Inv /\ Clear

-----------------------------------------------------------------------------
(* Values and fields.                                                      *)

LEMMA FieldsFacts ==
    /\ \A i \in Places : Fields[i] \in FieldNames
    /\ \A i, j \in Places : Fields[i] = Fields[j] => i = j
    /\ \A f \in FieldNames : \E i \in Places : f = Fields[i]
    /\ Fields[1] = "signingKeys" /\ Fields[2] = "publishableKey" /\ Fields[3] = "secretKey"
    /\ Fields[4] = "anonRoleJwt" /\ Fields[5] = "serviceRoleJwt"
  BY DEF Fields, FieldNames, Places

LEMMA ValueFacts ==
    /\ \A f, r : Value(f, r).field = f /\ Value(f, r).run = r
    /\ Empty \in Values /\ Garbled \in Values
    /\ Empty.field \notin FieldNames /\ Garbled.field \notin FieldNames
    /\ Empty.run = 0 /\ Garbled.run = 0
    /\ \A f \in FieldNames : \A r \in Runs : Value(f, r) \in Values
  BY DEF Value, Values, Empty, Garbled, FieldNames

LEMMA RunsFacts == Runs \subseteq Nat /\ 0 \in Runs
  BY MaxRunsAssumption DEF Runs

LEMMA ValueRun == ASSUME NEW v \in Values PROVE v.run \in Runs
  BY RunsFacts, ValueFacts DEF Values

LEMMA ValueIs ==
    ASSUME NEW v \in Values, v.field \in FieldNames
    PROVE  v = Value(v.field, v.run)
  BY ValueFacts DEF Values, Value

LEMMA BundleType ==
    ASSUME NEW r \in Runs
    PROVE  GenerateCredentialBundle(r) \in [FieldNames -> Values]
  BY ValueFacts DEF GenerateCredentialBundle

LEMMA OpenSlips == 0 \in 0..MaxFaults /\ 0 \in 0..MaxSlips
  BY BoundsAssumption

-----------------------------------------------------------------------------
(* Types.                                                                  *)

LEMMA OscStep ==
    ASSUME TypeOK, NEW v \in Values, Osc52(v) \/ Osc52Fails(v)
    PROVE  /\ clipboard' \in {clipboard, v} /\ clipboard' \in Values
           /\ ignored' \in BOOLEAN /\ faults' \in 0..MaxFaults
  <1>1. clipboard' \in {clipboard, v}
    BY DEF Osc52, Osc52Fails
  <1>2. clipboard' \in Values
    BY <1>1 DEF TypeOK, WizardTypeOK
  <1>3. ignored' = TRUE \/ ignored' = ignored
    BY Zenon DEF Osc52, Osc52Fails
  <1>4. ignored' \in BOOLEAN
    BY <1>3, Zenon DEF TypeOK, WizardTypeOK
  <1>5. faults' \in 0..MaxFaults
    <2>1. faults' = faults \/ (faults < MaxFaults /\ faults' = faults + 1)
      BY DEF Osc52, Osc52Fails
    <2> QED
      BY <2>1, BoundsAssumption DEF TypeOK, WizardTypeOK
  <1> QED
    BY <1>1, <1>2, <1>4, <1>5

\* The value the wizard hands over at its place.
Handed == GenerateCredentialBundle(run)[Fields[at]]

LEMMA HandedIs ==
    ASSUME TypeOK
    PROVE  Handed \in Values /\ Handed.field = Fields[at] /\ Handed.run = run
  <1>1. at \in Places /\ run \in Runs
    BY DEF TypeOK, WizardTypeOK, Places
  <1>2. Fields[at] \in FieldNames
    BY <1>1, FieldsFacts
  <1>3. Handed = Value(Fields[at], run)
    BY <1>2 DEF Handed, GenerateCredentialBundle
  <1> QED
    BY <1>1, <1>2, <1>3, ValueFacts

LEMMA WizardType ==
    ASSUME TypeOK, WizardNext
    PROVE  WizardTypeOK'
  <1> USE DEF TypeOK, WizardTypeOK
  <1>0. Empty \in Values
    BY ValueFacts
  <1>1. CASE Launch
    <2>1. run' \in Runs
      BY <1>1, MaxRunsAssumption DEF Launch, Runs
    <2> QED
      BY <1>1, <2>1 DEF Launch
  <1>2. CASE Generate \/ Confirm
    BY <1>2 DEF Generate, Confirm, Goto, terminal, history
  <1>3. CASE Copy
    <2>1. Osc52(Handed) \/ Osc52Fails(Handed)
      BY <1>3 DEF Copy, Handed
    <2>2. /\ clipboard' \in Values /\ ignored' \in BOOLEAN /\ faults' \in 0..MaxFaults
      BY <2>1, OscStep, HandedIs
    <2>3. overtaken' \in BOOLEAN
      BY <1>3, Zenon DEF Copy
    <2> QED
      BY <1>3, <2>2, <2>3 DEF Copy, Goto
  <1>4. CASE WaitForEnter
    <2>1. slips' \in 0..MaxSlips
      BY <1>4, BoundsAssumption DEF WaitForEnter
    <2> QED
      BY <1>4, <2>1 DEF WaitForEnter, Goto, terminal, history
  <1>5. CASE ReturnError
    BY <1>5 DEF ReturnError, Goto, terminal, history
  <1>6. CASE ClearField
    <2>1. /\ clipboard' \in Values /\ ignored' \in BOOLEAN /\ faults' \in 0..MaxFaults
      BY <1>0, <1>6, OscStep DEF ClearField
    <2>2. pc' \in {"confirm", "copy", "deferred"} /\ at' \in 1..5
      BY <1>6 DEF ClearField, Goto
    <2>3. UNCHANGED <<run, handler, history, pasted, stored, slips>>
      BY <1>6 DEF ClearField, Goto
    <2> QED
      BY <2>1, <2>2, <2>3 DEF history
  <1>7. CASE FinalClear
    <2>1. /\ clipboard' \in Values /\ ignored' \in BOOLEAN /\ faults' \in 0..MaxFaults
      BY <1>0, <1>7, OscStep DEF FinalClear
    <2> QED
      BY <1>7, <2>1 DEF FinalClear, Goto, history
  <1>8. CASE DeferredClear
    <2>1. /\ clipboard' \in Values /\ ignored' \in BOOLEAN /\ faults' \in 0..MaxFaults
      BY <1>0, <1>8, OscStep DEF DeferredClear
    <2>2. /\ reported' \in BOOLEAN /\ pasted' \in BOOLEAN
      BY <1>8, Zenon DEF DeferredClear, End
    <2>3. /\ pc' = "off" /\ at' = 1 /\ handler' = "waiting"
          /\ UNCHANGED <<run, overtaken, stored, slips>>
      BY <1>8 DEF DeferredClear, End
    <2> QED
      BY <2>1, <2>2, <2>3
  <1>9. CASE Interrupt
    BY <1>9 DEF Interrupt, terminal, history
  <1>10. CASE HandlerClear
    <2>1. /\ clipboard' \in Values /\ ignored' \in BOOLEAN /\ faults' \in 0..MaxFaults
      BY <1>0, <1>10, OscStep DEF HandlerClear
    <2>2. reported' \in BOOLEAN
      BY <1>10, Zenon DEF HandlerClear
    <2> QED
      BY <1>10, <2>1, <2>2 DEF HandlerClear
  <1>11. CASE HandlerExit
    <2>1. pasted' \in BOOLEAN
      BY <1>11, Zenon DEF HandlerExit, End
    <2>2. /\ pc' = "off" /\ at' = 1 /\ handler' = "waiting"
          /\ UNCHANGED <<run, clipboard, ignored, faults, reported, overtaken, stored, slips>>
      BY <1>11 DEF HandlerExit, End, terminal, history
    <2> QED
      BY <2>1, <2>2
  <1>12. CASE Paste
    <2>1. stored' \in [FieldNames -> Values]
      BY <1>12, ValueFacts DEF Paste
    <2>2. slips' \in 0..MaxSlips
      BY <1>12, BoundsAssumption DEF Paste
    <2> QED
      BY <1>12, <2>1, <2>2 DEF Paste, process, terminal, history
  <1> QED
    BY <1>1, <1>2, <1>3, <1>4, <1>5, <1>6, <1>7, <1>8, <1>9, <1>10, <1>11, <1>12
       DEF WizardNext

LEMMA PlatformType ==
    ASSUME TypeOK, Reconcile \/ StartGateway \/ StartRest
    PROVE  /\ TypeOK'
           /\ UNCHANGED wizardVars
  <1>1. UNCHANGED wizardVars
    BY DEF Reconcile, StartGateway, StartRest
  <1>2. WizardTypeOK'
    BY <1>1 DEF TypeOK, WizardTypeOK, wizardVars, process, terminal, history
  <1>3. accepted' \in Bundles /\ gateway' \in Bundles
    BY DEF TypeOK, WizardTypeOK, Reconcile, StartGateway, StartRest, Bundles
  <1>4. rest' \in Runs
    <2>1. accepted["signingKeys"] \in Values
      BY DEF TypeOK, Bundles, FieldNames
    <2>2. accepted.signingKeys.run \in Runs
      BY <2>1, ValueRun
    <2> QED
      BY <2>2 DEF TypeOK, Reconcile, StartGateway, StartRest, PublicJWKS
  <1> QED
    BY <1>1, <1>2, <1>3, <1>4 DEF TypeOK

LEMMA TypeStep ==
    ASSUME TypeOK, [Next]_vars
    PROVE  TypeOK'
  <1>1. CASE WizardNext /\ UNCHANGED platform
    BY <1>1, WizardType DEF TypeOK, platform
  <1>2. CASE Reconcile \/ StartGateway \/ StartRest
    BY <1>2, PlatformType
  <1>3. CASE UNCHANGED vars
    BY <1>3 DEF TypeOK, WizardTypeOK, vars, platform, wizardVars, process, terminal, history
  <1> QED
    BY <1>1, <1>2, <1>3 DEF Next

-----------------------------------------------------------------------------
(* Where the run is.                                                       *)

LEMMA StepsStep ==
    ASSUME TypeOK, Steps, WizardNext
    PROVE  Steps'
  <1>1. /\ pc' \in {"off", "open"} => at' = 1
        /\ pc' \in {"confirm", "final"} => at' = 5
        /\ pc' = "off" => handler' = "waiting"
    BY DEF WizardNext, Steps, Launch, Generate, Copy, WaitForEnter, ReturnError, ClearField,
       Confirm, FinalClear, DeferredClear, Interrupt, HandlerClear, HandlerExit, Paste,
       Goto, End, process
  <1>2. pc' # "wait" => pasted' = FALSE
    <2>1. CASE WaitForEnter \/ ReturnError \/ DeferredClear \/ HandlerExit
      BY <2>1, Zenon DEF WaitForEnter, ReturnError, DeferredClear, HandlerExit, End
    <2>2. CASE Paste
      BY <2>2 DEF Paste, process
    <2>3. CASE Launch \/ Generate \/ Copy \/ ClearField \/ Confirm \/ FinalClear
      <3>1. pc # "wait" /\ pasted' = pasted
        BY <2>3 DEF Launch, Generate, Copy, ClearField, Confirm, FinalClear
      <3> QED
        BY <3>1, Zenon DEF Steps
    <2>4. CASE Interrupt \/ HandlerClear
      <3>1. pc' = pc /\ pasted' = pasted
        BY <2>4 DEF Interrupt, HandlerClear
      <3> QED
        BY <3>1, Zenon DEF Steps
    <2> QED
      BY <2>1, <2>2, <2>3, <2>4 DEF WizardNext
  <1> QED
    BY <1>1, <1>2 DEF Steps

LEMMA ClearStep ==
    ASSUME TypeOK, Steps, Clear, WizardNext
    PROVE  Clear'
  <1>1. CASE Launch
    <2>1. pc' # "off" /\ handler' = "waiting"
      BY <1>1 DEF Launch, Steps
    <2> QED
      BY <2>1 DEF Clear
  <1>2. CASE Copy
    <2>1. pc' # "off" /\ handler' = handler
      BY <1>2 DEF Copy, Goto
    <2>2. handler = "exit" => overtaken' = TRUE
      BY <1>2, Zenon DEF Copy
    <2> QED
      BY <2>1, <2>2 DEF Clear, Cleared
  <1>3. CASE DeferredClear
    <2>1. CASE Osc52(Empty)
      BY <2>1, Zenon DEF Clear, Cleared, Osc52
    <2>2. CASE ~Osc52(Empty)
      BY <1>3, <2>2, Zenon DEF DeferredClear, Clear, Cleared
    <2> QED
      BY <2>1, <2>2
  <1>4. CASE HandlerClear
    <2>1. CASE Osc52(Empty)
      BY <2>1, Zenon DEF Clear, Cleared, Osc52
    <2>2. CASE ~Osc52(Empty)
      BY <1>4, <2>2, Zenon DEF HandlerClear, Clear, Cleared
    <2> QED
      BY <2>1, <2>2
  <1>5. CASE Generate \/ WaitForEnter \/ ReturnError \/ Confirm \/ Paste
    <2>1. pc' # "off" /\ handler' = handler
      BY <1>5 DEF Generate, WaitForEnter, ReturnError, Confirm, Paste, Goto, process
    <2>2. UNCHANGED <<clipboard, reported, overtaken, ignored>>
      BY <1>5 DEF Generate, WaitForEnter, ReturnError, Confirm, Paste, terminal, history
    <2> QED
      BY <2>1, <2>2 DEF Clear, Cleared
  <1>6. CASE ClearField \/ FinalClear
    <2>1. /\ pc' # "off" /\ handler' = handler /\ UNCHANGED <<reported, overtaken>>
      BY <1>6 DEF ClearField, FinalClear, Goto, history
    <2>2. Osc52(Empty) \/ Osc52Fails(Empty)
      BY <1>6 DEF ClearField, FinalClear
    <2>3. clipboard' = Empty \/ clipboard' = clipboard
      BY <2>2 DEF Osc52, Osc52Fails
    <2>4. ignored' = TRUE \/ ignored' = ignored
      BY <2>2, Zenon DEF Osc52, Osc52Fails
    <2>5. CASE handler = "exit"
      <3>1. Cleared
        BY <2>5 DEF Clear
      <3>2. reported' = reported /\ overtaken' = overtaken
        BY <2>1
      <3> QED
        BY <3>1, <3>2, <2>3, <2>4, Zenon DEF Cleared, Clear
    <2> QED
      BY <2>1, <2>5 DEF Clear
  <1>7. CASE Interrupt
    <2>1. pc' # "off" /\ handler' # "exit"
      BY <1>7 DEF Interrupt
    <2> QED
      BY <2>1 DEF Clear
  <1>8. CASE HandlerExit
    <2>1. handler = "exit" /\ UNCHANGED <<clipboard, reported, overtaken, ignored>>
      BY <1>8 DEF HandlerExit, terminal, history
    <2> QED
      BY <2>1 DEF Clear, Cleared
  <1> QED
    BY <1>1, <1>2, <1>3, <1>4, <1>5, <1>6, <1>7, <1>8 DEF WizardNext

-----------------------------------------------------------------------------
(* Steps that save nothing.                                                *)

LEMMA NotEmpty == \A i \in Places : \A r : ~Is(Empty, i, r) /\ ~Usable(Empty, i)
  BY FieldsFacts, ValueFacts DEF Is, Usable

LEMMA Typed ==
    ASSUME TypeOK
    PROVE  /\ run \in Nat /\ at \in Places /\ clipboard \in Values /\ clipboard.run \in Nat
           /\ \A i \in Places : At(i) \in Values /\ At(i).run \in Nat
  BY ValueRun, RunsFacts, FieldsFacts DEF TypeOK, WizardTypeOK, Places, At

\* The run has got to place i: it may have made its field there.
Reached(i) == i <= at /\ (pc \in {"open", "copy"} => i < at)

\* The clipboard is kept or cleared, the same run goes on or ends, and no place
\* is counted as saved that was not.
LEMMA QuietCore ==
    ASSUME TypeOK, Core,
           clipboard' \in {clipboard, Empty}, stored' = stored, run' = run,
           \/ pc' = "off"
           \/ /\ pc # "off"
              /\ \A i \in Places : (Saved(i)' => Saved(i)) /\ (Reached(i) => Reached(i)')
    PROVE  Core'
  <1> USE DEF Core
  <1>1. 1 \in Places /\ \A i \in Places : At(i)' = At(i)
    BY DEF At, Places
  <1>2. Made(clipboard)' /\ \A i \in Places : Made(At(i))'
    <2>1. ASSUME NEW v, Made(v) PROVE v.run <= run' /\ \A i \in Places :
             pc' # "off" /\ Is(v, i, run') => Reached(i)'
      BY <2>1 DEF Made, Reached
    <2>2. Made(clipboard) /\ \A i \in Places : Made(At(i))
      BY DEF InOrder
    <2>3. Empty.run <= run' /\ \A i \in Places : ~Is(Empty, i, run')
      BY NotEmpty, ValueFacts, Typed
    <2>4. Made(clipboard)'
      BY <2>1, <2>2, <2>3 DEF Made, Reached, Is
    <2>5. \A i \in Places : Made(At(i))'
      BY <1>1, <2>1, <2>2 DEF Made, Reached, Is
    <2> QED
      BY <2>4, <2>5
  <1>3. Latest'
    BY <1>1, NotEmpty DEF Latest, Is
  <1>4. Stale'
    BY <1>1, ValueFacts DEF Stale, Saved
  <1>5. OldKey'
    BY <1>1 DEF OldKey, Saved, Is, Places
  <1>6. NewKey'
    BY <1>1 DEF NewKey, Saved, Is, Usable
  <1>7. Between'
    BY <1>1 DEF Between, Is, Usable
  <1> QED
    BY <1>2, <1>3, <1>4, <1>5, <1>6, <1>7 DEF InOrder

\* The field copied is of this run, and no later one of this run exists.
LEMMA CopyCore ==
    ASSUME TypeOK, Steps, Core, Copy
    PROVE  Core'
  <1> USE DEF Core
  <1>1. /\ clipboard' \in {clipboard, Handed}
        /\ pc = "copy" /\ pc' \in {"wait", "deferred"}
        /\ UNCHANGED <<run, at, stored, pasted>>
    <2>1. Osc52(Handed) \/ Osc52Fails(Handed)
      BY DEF Copy, Handed
    <2>2. clipboard' \in {clipboard, Handed}
      BY <2>1 DEF Osc52, Osc52Fails
    <2> QED
      BY <2>2 DEF Copy, Goto
  <1>2. /\ 1 \in Places /\ \A i \in Places : At(i)' = At(i)
        /\ \A i \in Places : Saved(i)' <=> Saved(i)
    <2>1. pasted = FALSE
      BY <1>1 DEF Steps
    <2> QED
      BY <1>1, <2>1 DEF At, Saved, Places
  <1>3. /\ \A i \in Places : \A r : Is(Handed, i, r) => i = at /\ r = run
        /\ Handed.run = run /\ at \in Places /\ run \in Nat
    BY HandedIs, FieldsFacts, Typed DEF Is
  <1>4. Made(clipboard)' /\ \A i \in Places : Made(At(i))'
    <2>1. ASSUME NEW v, Made(v) PROVE v.run <= run' /\ \A i \in Places : Is(v, i, run') => i <= at'
      BY <1>1, <2>1 DEF Made
    <2>2. Handed.run <= run' /\ \A i \in Places : Is(Handed, i, run') => i <= at'
      BY <1>1, <1>3 DEF Places
    <2>3. Made(clipboard) /\ \A i \in Places : Made(At(i))
      BY DEF InOrder
    <2>4. Made(clipboard)'
      BY <1>1, <2>1, <2>2, <2>3 DEF Made, Is
    <2>5. \A i \in Places : Made(At(i))'
      BY <1>1, <1>2, <2>1, <2>3 DEF Made, Is
    <2> QED
      BY <2>4, <2>5
  <1>5. Latest'
    <2>1. ASSUME NEW i \in Places, NEW j \in Places, NEW r \in Runs,
                 Is(clipboard', i, r), i < j
          PROVE  ~Is(At(j), j, r)
      <3>1. CASE clipboard' = clipboard
        BY <2>1, <3>1 DEF Latest
      <3>2. CASE clipboard' = Handed
        <4>1. i = at /\ r = run
          BY <1>3, <2>1, <3>2
        <4>2. Made(At(j))
          BY DEF InOrder
        <4> QED
          BY <1>1, <2>1, <4>1, <4>2 DEF Made, Places
      <3> QED
        BY <1>1, <3>1, <3>2
    <2> QED
      BY <1>2, <2>1 DEF Latest, Is
  <1>6. Stale'
    BY <1>1, <1>2, <1>3 DEF Stale
  <1>7. OldKey'
    BY <1>1, <1>2 DEF OldKey, Is, Places
  <1>8. NewKey'
    BY <1>1, <1>2 DEF NewKey, Is, Usable
  <1>9. Between'
    BY <1>2 DEF Between, Is, Usable
  <1> QED
    BY <1>4, <1>5, <1>6, <1>7, <1>8, <1>9 DEF InOrder

\* A new run has saved nothing, and all there is was made before it.
LEMMA LaunchCore ==
    ASSUME TypeOK, Steps, Core, Launch
    PROVE  Core'
  <1> USE DEF Core
  <1>1. /\ pc = "off" /\ pc' = "open" /\ run' = run + 1 /\ at' = 1
        /\ UNCHANGED <<clipboard, stored, pasted>>
    BY DEF Launch, Steps
  <1>2. 1 \in Places /\ \A i \in Places : At(i)' = At(i) /\ ~Saved(i)'
    <2>1. pasted = FALSE
      BY <1>1 DEF Steps
    <2> QED
      BY <1>1, <2>1 DEF At, Saved, Places
  <1>3. run \in Nat /\ clipboard.run \in Nat /\ \A i \in Places : At(i).run \in Nat
    BY Typed
  <1>4. clipboard.run < run' /\ \A i \in Places : At(i).run < run'
    BY <1>1, <1>3 DEF InOrder, Made
  <1>5. Made(clipboard)'
    BY <1>1, <1>3, <1>4 DEF Made, Is
  <1>6. \A i \in Places : Made(At(i))'
    BY <1>1, <1>2, <1>3, <1>4 DEF Made, Is
  <1>7. Latest'
    BY <1>1, <1>2 DEF Latest, Is
  <1>8. Stale' /\ OldKey' /\ NewKey'
    BY <1>2 DEF Stale, OldKey, NewKey, Places
  <1>9. Between'
    BY <1>2 DEF Between, Is, Usable
  <1> QED
    BY <1>5, <1>6, <1>7, <1>8, <1>9 DEF InOrder

-----------------------------------------------------------------------------
(* A field is saved.                                                       *)

LEMMA PasteCore ==
    ASSUME TypeOK, Steps, Core, Paste, slips' = 0
    PROVE  Core'
  <1> USE DEF Core
  <1>1. /\ pc = "wait" /\ pasted = FALSE /\ pasted' = TRUE
    BY Zenon DEF Paste, TypeOK, WizardTypeOK
  <1>2. /\ stored' = [stored EXCEPT ![Fields[at]] = clipboard]
        /\ UNCHANGED <<run, pc, at, clipboard>>
    BY DEF Paste, process, terminal, TypeOK, WizardTypeOK
  <1>3. /\ run \in Nat /\ at \in Places /\ clipboard \in Values /\ clipboard.run \in Nat
        /\ 1 \in Places /\ \A i \in Places : At(i) \in Values /\ At(i).run \in Nat
    BY Typed DEF Places
  <1>4. \A i \in Places : At(i)' = IF i = at THEN clipboard ELSE At(i)
    BY <1>2, <1>3, FieldsFacts DEF At, TypeOK, WizardTypeOK
  <1>5. \A i \in Places : (Saved(i) <=> i < at) /\ (Saved(i)' <=> i <= at)
    BY <1>1, <1>2, <1>3 DEF Saved, Places
  <1>6. \A v : \A i, j \in Places : Usable(v, i) /\ Usable(v, j) => i = j
    BY FieldsFacts DEF Usable
  <1>7. \A v : \A i \in Places : \A r : Is(v, i, r) <=> Usable(v, i) /\ v.run = r
    BY DEF Is, Usable
  <1>8. Made(clipboard) /\ \A i \in Places : Made(At(i))
    BY DEF InOrder
  \* What is saved at a later place beside another field is of this run.
  <1>9. ASSUME at # 1, Usable(clipboard, at), At(1) # clipboard
        PROVE  clipboard.run = run
    <2>1. clipboard.field \in FieldNames
      BY <1>3, <1>9, FieldsFacts DEF Usable
    <2>2. Saved(1)
      BY <1>3, <1>5, <1>9 DEF Places
    <2>3. ~(clipboard.run < run)
      BY <1>1, <1>3, <1>9, <2>1, <2>2 DEF Stale
    <2> QED
      BY <1>3, <1>8, <2>3 DEF Made
  <1>10. Made(clipboard)' /\ \A i \in Places : Made(At(i))'
    <2>1. ASSUME NEW v, Made(v)
          PROVE  /\ v.run <= run'
                 /\ \A i \in Places : Is(v, i, run') => i <= at'
      BY <1>1, <1>2, <2>1 DEF Made
    <2>2. Made(clipboard)'
      BY <1>1, <1>2, <1>8, <2>1 DEF Made, Is
    <2>3. \A i \in Places : Made(At(i))'
      BY <1>1, <1>2, <1>3, <1>4, <1>8, <2>1 DEF Made, Is
    <2> QED
      BY <2>2, <2>3
  <1>11. Latest'
    <2>1. ASSUME NEW i \in Places, NEW j \in Places, NEW r \in Runs,
                 Is(clipboard, i, r), i < j
          PROVE  ~Is(At(j)', j, r)
      BY <1>3, <1>4, <1>6, <1>7, <2>1 DEF Latest, Places
    <2> QED
      BY <1>2, <2>1 DEF Latest, Is
  <1>12. Stale'
    BY <1>1, <1>2, <1>3, <1>4, <1>5 DEF Stale, Places
  <1>13. OldKey'
    <2>1. ASSUME NEW j \in Places, NEW r \in Runs,
                 r < run, Is(At(1)', 1, r), 1 < j, Is(At(j)', j, r)
          PROVE  FALSE
      <3>1. CASE at = 1
        BY <1>3, <1>4, <2>1, <3>1 DEF Latest, Places
      <3>2. CASE at # 1 /\ j = at
        BY <1>3, <1>4, <1>6, <1>7, <1>9, <2>1, <3>2, RunsFacts DEF Places
      <3>3. CASE at # 1 /\ j # at
        BY <1>3, <1>4, <1>5, <2>1, <3>3 DEF OldKey, Places
      <3> QED
        BY <3>1, <3>2, <3>3
    <2> QED
      BY <1>2, <2>1 DEF OldKey, Is
  <1>14. NewKey'
    <2>1. ASSUME NEW i \in Places, Is(At(1)', 1, run), i <= at, Usable(At(i)', i)
          PROVE  At(i)'.run = run
      <3>1. CASE i = 1
        BY <1>7, <2>1, <3>1
      <3>2. CASE i # 1 /\ i = at
        <4>1. At(1) # clipboard
          BY <1>3, <1>4, <1>6, <1>7, <2>1, <3>2
        <4> QED
          BY <1>4, <1>9, <2>1, <3>2, <4>1
      <3>3. CASE i # 1 /\ i # at
        BY <1>1, <1>3, <1>4, <1>5, <2>1, <3>3 DEF NewKey, Places
      <3> QED
        BY <3>1, <3>2, <3>3
    <2> QED
      BY <1>2, <1>5, <2>1 DEF NewKey, Is, Usable
  <1>15. Between'
    <2>1. ASSUME NEW i \in Places, NEW j \in Places, NEW r \in Runs,
                 1 < i, i < j, Is(At(1)', 1, r), Is(At(j)', j, r), Usable(At(i)', i)
          PROVE  At(i)'.run = r
      <3>1. CASE at = 1
        BY <1>3, <1>4, <2>1, <3>1 DEF Latest, Places
      <3>2. CASE j = at
        <4>1. At(1)' = At(1) /\ At(i)' = At(i) /\ At(j)' = clipboard
          BY <1>3, <1>4, <2>1, <3>2 DEF Places
        <4>2. At(1) # clipboard /\ Usable(clipboard, at) /\ at # 1
          BY <1>3, <1>6, <1>7, <2>1, <3>2, <4>1 DEF Places
        <4>3. r = run
          BY <1>7, <1>9, <2>1, <3>2, <4>1, <4>2
        <4> QED
          BY <1>1, <1>3, <1>5, <2>1, <3>2, <4>1, <4>3 DEF NewKey, Places
      <3>3. CASE i = at
        <4>1. At(1)' = At(1) /\ At(j)' = At(j)
          BY <1>3, <1>4, <2>1, <3>3 DEF Places
        <4>2. r # run /\ r <= run
          BY <1>1, <1>3, <1>7, <1>8, <2>1, <3>3, <4>1, RunsFacts DEF Made, Places
        <4> QED
          BY <1>3, <1>5, <2>1, <3>3, <4>1, <4>2, RunsFacts DEF OldKey, Places
      <3>4. CASE at # 1 /\ i # at /\ j # at
        BY <1>3, <1>4, <2>1, <3>4 DEF Between, Places
      <3> QED
        BY <3>1, <3>2, <3>3, <3>4
    <2> QED
      BY <2>1 DEF Between, Is, Usable
  <1> QED
    BY <1>10, <1>11, <1>12, <1>13, <1>14, <1>15 DEF InOrder

-----------------------------------------------------------------------------
(* The inductive invariant.                                                *)

LEMMA SlipsGrow ==
    ASSUME TypeOK, WizardNext, slips' = 0
    PROVE  slips = 0
  <1>1. slips' = slips \/ slips' = slips + 1
    BY DEF WizardNext, Launch, Generate, Copy, WaitForEnter, ReturnError, ClearField, Confirm,
       FinalClear, DeferredClear, Interrupt, HandlerClear, HandlerExit, Paste
  <1> QED
    BY <1>1 DEF TypeOK, WizardTypeOK

LEMMA CoreStep ==
    ASSUME TypeOK, Steps, Core, WizardNext, slips' = 0
    PROVE  Core'
  <1>0. at \in Places /\ (pc # "wait" => pasted = FALSE) /\ (pc = "open" => at = 1)
        /\ (pc \in {"confirm", "final"} => at = 5)
    BY Typed DEF Steps
  <1>1. CASE Launch
    BY <1>1, LaunchCore
  <1>2. CASE Copy
    BY <1>2, CopyCore
  <1>3. CASE Paste
    BY <1>3, PasteCore
  <1>4. CASE Generate \/ Confirm
    <2>1. /\ UNCHANGED <<clipboard, stored, run, at, pasted>>
          /\ \/ pc = "open" /\ pc' = "copy"
             \/ pc = "confirm" /\ pc' = "final"
      BY <1>4 DEF Generate, Confirm, Goto, terminal
    <2>2. \A i \in Places : (Saved(i)' => Saved(i)) /\ (Reached(i) => Reached(i)')
      BY <2>1 DEF Saved, Reached, Places
    <2> QED
      BY <2>1, <2>2, QuietCore
  <1>5. CASE WaitForEnter
    <2>1. /\ UNCHANGED <<clipboard, stored, run, at>> /\ pc = "wait" /\ pc' = "clear"
      BY <1>5 DEF WaitForEnter, Goto, terminal
    <2>2. pasted \/ slips' = slips + 1
      BY <1>5, Zenon DEF WaitForEnter
    <2>3. ~(slips' = slips + 1)
      BY DEF TypeOK, WizardTypeOK
    <2>4. pasted = TRUE
      BY <2>2, <2>3, Zenon DEF TypeOK, WizardTypeOK
    <2>5. \A i \in Places : (Saved(i)' => Saved(i)) /\ (Reached(i) => Reached(i)')
      BY <1>0, <2>1, <2>4 DEF Saved, Reached, Places
    <2> QED
      BY <2>1, <2>5, QuietCore
  <1>6. CASE ReturnError
    <2>1. /\ UNCHANGED <<clipboard, stored, run, at>>
          /\ pc \in {"open", "wait", "confirm"} /\ pc' = "deferred"
      BY <1>6 DEF ReturnError, Goto, terminal
    <2>2. pasted' = FALSE
      BY <1>6, Zenon DEF ReturnError
    <2>3. \A i \in Places : (Saved(i)' => Saved(i)) /\ (Reached(i) => Reached(i)')
      BY <1>0, <2>1, <2>2 DEF Saved, Reached, Places
    <2> QED
      BY <2>1, <2>3, QuietCore
  <1>7. CASE ClearField
    <2>1. /\ UNCHANGED <<stored, run, pasted>> /\ pc = "clear"
          /\ \/ pc' = "confirm" /\ at = 5 /\ at' = at
             \/ pc' = "copy" /\ at' = at + 1
             \/ pc' = "deferred" /\ at' = at
      BY <1>7 DEF ClearField, Goto
    <2>2. clipboard' \in {clipboard, Empty}
      BY <1>7 DEF ClearField, Osc52, Osc52Fails
    <2>3. \A i \in Places : (Saved(i)' => Saved(i)) /\ (Reached(i) => Reached(i)')
      BY <1>0, <2>1 DEF Saved, Reached, Places
    <2> QED
      BY <2>1, <2>2, <2>3, QuietCore
  <1>8. CASE FinalClear
    <2>1. /\ UNCHANGED <<stored, run, at, pasted>> /\ pc = "final" /\ pc' = "deferred"
          /\ clipboard' \in {clipboard, Empty}
      BY <1>8 DEF FinalClear, Goto, Osc52, Osc52Fails
    <2>2. \A i \in Places : (Saved(i)' => Saved(i)) /\ (Reached(i) => Reached(i)')
      BY <1>0, <2>1 DEF Saved, Reached, Places
    <2> QED
      BY <2>1, <2>2, QuietCore
  <1>9. CASE Interrupt \/ HandlerClear
    <2>1. /\ UNCHANGED <<stored, run, at, pc, pasted>> /\ pc # "off"
          /\ clipboard' \in {clipboard, Empty}
      BY <1>9 DEF Interrupt, HandlerClear, Osc52, Osc52Fails, terminal
    <2>2. \A i \in Places : (Saved(i)' => Saved(i)) /\ (Reached(i) => Reached(i)')
      BY <1>0, <2>1 DEF Saved, Reached, Places
    <2> QED
      BY <2>1, <2>2, QuietCore
  <1>10. CASE DeferredClear \/ HandlerExit
    <2>1. /\ UNCHANGED <<stored, run>> /\ pc' = "off" /\ clipboard' \in {clipboard, Empty}
      BY <1>10 DEF DeferredClear, HandlerExit, End, Osc52, Osc52Fails, terminal
    <2> QED
      BY <2>1, QuietCore
  <1> QED
    BY <1>1, <1>2, <1>3, <1>4, <1>5, <1>6, <1>7, <1>8, <1>9, <1>10 DEF WizardNext

LEMMA InitHolds ==
    ASSUME Init
    PROVE  IInv
  <1> USE DEF Init, WizardInit
  <1>1. TypeOK
    <2>1. GenerateCredentialBundle(0) \in [FieldNames -> Values]
      BY BundleType, RunsFacts
    <2>2. /\ reported \in BOOLEAN /\ overtaken \in BOOLEAN
          /\ ignored \in BOOLEAN /\ pasted \in BOOLEAN
      BY Zenon
    <2>3. /\ run \in Runs /\ pc = "off" /\ at \in 1..5 /\ handler = "waiting"
          /\ clipboard \in Values /\ stored \in [FieldNames -> Values]
          /\ faults \in 0..MaxFaults /\ slips \in 0..MaxSlips
      BY <2>1, RunsFacts, ValueFacts, OpenSlips
    <2>4. WizardTypeOK
      BY <2>2, <2>3 DEF WizardTypeOK
    <2> QED
      BY <2>1, <2>4, RunsFacts DEF TypeOK, Bundles
  <1>2. Steps /\ Clear
    BY DEF Steps, Clear, Cleared
  <1>3. \A i \in Places : At(i) = Value(Fields[i], 0)
    BY FieldsFacts DEF At, GenerateCredentialBundle
  <1>4. 1 \in Places /\ clipboard.run = 0 /\ \A i \in Places : At(i).run = 0
    BY <1>3, ValueFacts DEF Places
  <1>5. InOrder
    BY <1>4 DEF InOrder, Made
  <1>6. Latest
    BY NotEmpty DEF Latest
  <1>7. Stale /\ OldKey /\ NewKey
    BY <1>4 DEF Stale, OldKey, NewKey, Saved
  <1>8. Between
    BY <1>4 DEF Between, Is
  <1> QED
    BY <1>1, <1>2, <1>5, <1>6, <1>7, <1>8 DEF IInv, Inv, Core

LEMMA SameWizard ==
    ASSUME Steps, Inv, Clear, UNCHANGED wizardVars
    PROVE  Steps' /\ Inv' /\ Clear'
  <1>1. UNCHANGED <<run, pc, at, handler, clipboard, reported, overtaken, ignored, pasted,
                    stored, slips>>
    BY DEF wizardVars, process, terminal, history
  <1>2. Steps' /\ Clear'
    BY <1>1 DEF Steps, Clear, Cleared
  <1>3. Core => Core'
    BY <1>1 DEF Core, InOrder, Made, Latest, Stale, OldKey, NewKey, Between, Saved, At, Is,
       Usable
  <1> QED
    BY <1>1, <1>2, <1>3 DEF Inv

LEMMA NextHolds ==
    ASSUME IInv, [Next]_vars
    PROVE  IInv'
  <1> USE DEF IInv
  <1>1. TypeOK'
    BY TypeStep
  <1>2. CASE WizardNext
    <2>1. Steps' /\ Clear'
      BY <1>2, StepsStep, ClearStep
    <2>2. Inv'
      BY <1>2, SlipsGrow, CoreStep DEF Inv
    <2> QED
      BY <1>1, <2>1, <2>2
  <1>3. CASE Reconcile \/ StartGateway \/ StartRest
    BY <1>1, <1>3, PlatformType, SameWizard
  <1>4. CASE UNCHANGED vars
    BY <1>1, <1>4, SameWizard DEF vars
  <1> QED
    BY <1>2, <1>3, <1>4 DEF Next

-----------------------------------------------------------------------------
(* Theorems.                                                               *)

\* Everything the wizard, the person, the operator, the gateway and REST hold
\* keeps its type: every stored or accepted field is a value some run of
\* generateCredentialBundle made, or empty, or damaged.
THEOREM TypeCorrect == Spec => []TypeOK
  <1>1. Init => IInv
    BY InitHolds
  <1>2. IInv /\ [Next]_vars => IInv'
    BY NextHolds
  <1>3. IInv => TypeOK
    BY DEF IInv
  <1> QED
    BY <1>1, <1>2, <1>3, PTL DEF Spec

\* Whatever the two goroutines of the wizard interleave to and whichever writes
\* to the terminal fail, a run that has ended leaves something in the clipboard
\* only if it said so, the terminal ignored a sequence, or a field was copied
\* between the handler's clear and os.Exit.
THEOREM ClipboardClear == Spec => []ClipboardLeftClear
  <1>1. Init => IInv
    BY InitHolds
  <1>2. IInv /\ [Next]_vars => IInv'
    BY NextHolds
  <1>3. IInv => ClipboardLeftClear
    BY Zenon DEF IInv, Clear, Cleared, ClipboardLeftClear
  <1> QED
    BY <1>1, <1>2, <1>3, PTL DEF Spec

\* Any bundle that ValidateProjectCredentials accepts comes whole from one run
\* of the wizard, for any number of runs, faults and interrupts, as long as the
\* person saves each field before confirming it.
THEOREM AcceptedWhole == Spec => []AcceptedIsWhole
  <1>1. Init => IInv
    BY InitHolds
  <1>2. IInv /\ [Next]_vars => IInv'
    BY NextHolds
  <1>3. IInv => AcceptedIsWhole
    <2> SUFFICES ASSUME IInv, slips = 0, ValidateProjectCredentials(stored)
                 PROVE  \E r \in Runs : stored = GenerateCredentialBundle(r)
      BY DEF AcceptedIsWhole
    <2> DEFINE r == stored["signingKeys"].run
    <2>1. /\ stored \in [FieldNames -> Values] /\ Between /\ 1 \in Places
          /\ 2 \in Places /\ 3 \in Places /\ 4 \in Places /\ 5 \in Places
      BY DEF IInv, TypeOK, WizardTypeOK, Inv, Core, Places
    <2>2. r \in Runs
      BY <2>1, ValueRun DEF FieldNames
    <2>3. /\ \A i \in Places : Usable(At(i), i)
          /\ Is(At(1), 1, r) /\ Is(At(4), 4, r) /\ Is(At(5), 5, r)
      BY FieldsFacts DEF ValidateProjectCredentials, ParseSigningJWK, WellFormed,
         VerifyES256JWT, VerifyWithPublicKey, Usable, Is, At, Places
    <2>4. At(2).run = r /\ At(3).run = r
      BY <2>1, <2>2, <2>3 DEF Between
    <2>5. \A i \in Places : At(i).run = r
      BY <2>3, <2>4 DEF Is, Places
    <2>6. ASSUME NEW f \in FieldNames PROVE stored[f] = Value(f, r)
      <3>1. PICK i \in Places : f = Fields[i]
        BY FieldsFacts
      <3>2. stored[f] \in Values /\ stored[f].field = f /\ stored[f].run = r
        BY <2>1, <2>3, <2>5, <3>1 DEF At, Usable
      <3> QED
        BY <3>2, ValueIs
    <2>7. stored = GenerateCredentialBundle(r)
      BY <2>1, <2>6 DEF GenerateCredentialBundle
    <2> QED
      BY <2>2, <2>7
  <1> QED
    BY <1>1, <1>2, <1>3, PTL DEF Spec

LEMMA SettledRendered ==
    ASSUME TypeOK, Settled
    PROVE  /\ Rendered(gateway)
           /\ gateway.anonRoleJwt.run = rest /\ gateway.serviceRoleJwt.run = rest
  <1>1. /\ gateway = stored /\ ValidateProjectCredentials(stored)
        /\ rest = PublicJWKS(stored.signingKeys)
    BY DEF Settled
  <1>2. Rendered(gateway)
    BY <1>1 DEF Rendered, FieldNames, ValidateProjectCredentials, ParseSigningJWK, WellFormed,
       VerifyES256JWT, VerifyWithPublicKey
  <1>3. gateway.anonRoleJwt.run = rest /\ gateway.serviceRoleJwt.run = rest
    BY <1>1 DEF ValidateProjectCredentials, VerifyES256JWT, VerifyWithPublicKey, PublicJWKS
  <1> QED
    BY <1>2, <1>3

\* For any set of requests and any mixture of runs in the gateway: no opaque key
\* is forwarded, and a protected route is called with the role token of a key
\* the client has presented.
THEOREM ForwardedByRole == Spec => []ForwardedAsRole
  <1>1. ForwardedAsRole
    <2> SUFFICES ASSUME Rendered(gateway), NEW q \in Requests,
                        Handle(q, gateway).status = "forwarded"
                 PROVE  LET sent == Handle(q, gateway).request
                        IN  /\ sent.apikey \notin {gateway.publishableKey, gateway.secretKey}
                            /\ q.route \in ProtectedRoutes =>
                                 /\ \/ sent.apikey = gateway.anonRoleJwt /\ q.route \notin ServiceRoutes
                                    \/ /\ sent.apikey = gateway.serviceRoleJwt
                                       /\ gateway.secretKey \in Presented(q)
                                 /\ sent.authorization.field \notin {"publishableKey", "secretKey"}
      BY DEF ForwardedAsRole, Rendered
    <2>1. q \in HttpRequests
      BY RequestsAssumption
    <2> QED
      BY <2>1, ForwardedRole
  <1> QED
    BY <1>1, PTL

\* Once a validated bundle is everywhere, REST is called with the role of the
\* key the client has, in the header or the query, by a token it verifies, or
\* with the client's own bearer token; without a key of the bundle it is not
\* called.  For any set of requests, any number of runs and any order of restarts.
THEOREM ServedAsPromised == Spec => []ServedEndToEnd
  <1>1. TypeOK => ServedEndToEnd
    <2> SUFFICES ASSUME TypeOK, Settled, NEW q \in Requests,
                        q.route = "rest-v1-protected", ~q.preflight
                 PROVE  /\ \A key \in {"publishableKey", "secretKey"} :
                             Presented(q) \ {Absent} = {stored[key]} =>
                               /\ Handle(q, gateway).status = "forwarded"
                               /\ IF GenuineBearer(q.authorization)
                                    THEN Handle(q, gateway).request.authorization = q.authorization
                                    ELSE /\ RestVerifies(Handle(q, gateway).request.authorization)
                                         /\ Handle(q, gateway).request.authorization.field
                                              = IF key = "secretKey" THEN "serviceRoleJwt"
                                                                     ELSE "anonRoleJwt"
                        /\ Presented(q) \cap {stored.publishableKey, stored.secretKey} = {}
                             => Handle(q, gateway).status = "unauthorized"
      BY DEF ServedEndToEnd
    <2>1. q \in HttpRequests /\ q.route \in ProtectedRoutes /\ stored = gateway
      BY RequestsAssumption DEF ProtectedRoutes, Settled
    <2>2. /\ Rendered(gateway)
          /\ gateway.anonRoleJwt.run = rest /\ gateway.serviceRoleJwt.run = rest
      BY SettledRendered
    <2>3. ASSUME NEW key \in {"publishableKey", "secretKey"},
                 Presented(q) \ {Absent} = {gateway[key]}, ~GenuineBearer(q.authorization)
          PROVE  /\ RestVerifies(Translate(gateway[key], gateway))
                 /\ Translate(gateway[key], gateway).field
                      = IF key = "secretKey" THEN "serviceRoleJwt" ELSE "anonRoleJwt"
      <3>1. CASE key = "publishableKey"
        <4>1. Translate(gateway[key], gateway) = gateway.anonRoleJwt
          BY <2>2, <3>1, TranslateIs
        <4> QED
          BY <2>2, <3>1, <4>1, TokensDiffer DEF RestVerifies
      <3>2. CASE key = "secretKey"
        <4>1. Translate(gateway[key], gateway) = gateway.serviceRoleJwt
          BY <2>2, <3>2, TranslateIs
        <4> QED
          BY <2>2, <3>2, <4>1, TokensDiffer DEF RestVerifies
      <3> QED
        BY <3>1, <3>2
    <2>4. ASSUME NEW key \in {"publishableKey", "secretKey"},
                 Presented(q) \ {Absent} = {gateway[key]}
          PROVE  /\ Handle(q, gateway).status = "forwarded"
                 /\ Handle(q, gateway).request.authorization
                      = IF GenuineBearer(q.authorization) THEN q.authorization
                                                          ELSE Translate(gateway[key], gateway)
      <3>1. gateway[key] \in {gateway.publishableKey, gateway.secretKey}
        OBVIOUS
      <3> QED
        BY <2>1, <2>2, <2>4, <3>1, ServedRole
    <2>5. Presented(q) \cap {gateway.publishableKey, gateway.secretKey} = {}
             => Handle(q, gateway).status = "unauthorized"
      BY <2>1, RefusedWithout
    <2> QED
      BY <2>1, <2>3, <2>4, <2>5
  <1> QED
    BY <1>1, TypeCorrect, PTL
=============================================================================
