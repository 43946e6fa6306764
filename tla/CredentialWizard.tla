-------------------------- MODULE CredentialWizard --------------------------
(***************************************************************************)
(* cmd/project-credentials-wizard: a person runs it to make a bundle and   *)
(* to carry its five fields, one after the other, through the clipboard of *)
(* the terminal to the secret manager the project's Secret is synchronised *)
(* from.  The interrupt handler runs beside the wizard; the terminal       *)
(* answers nothing, so a sequence it ignores looks like one it obeyed.     *)
(***************************************************************************)
EXTENDS ProjectCredentials

CONSTANTS
    MaxFaults,            \* bound on writes to the terminal that go wrong
    MaxSlips              \* bound on mistakes of the person

ASSUME BoundsAssumption == MaxFaults \in Nat /\ MaxSlips \in Nat

VARIABLES
    run, pc, at,          \* the run, its step and its place in Fields
    handler,              \* the interrupt handler: "waiting", "clear" or "exit"
    clipboard,
    reported,             \* has the run said that the clipboard may not be clear?
    overtaken,            \* was a field copied after the handler had cleared?
    ignored,              \* has the terminal ignored a sequence of the run?
    pasted,               \* has the person saved the field the wizard asks for?
    stored,               \* the fields in the secret manager
    faults, slips         \* how often these have happened

process == <<run, pc, at, handler>>
history == <<reported, overtaken>>
terminal == <<clipboard, ignored, faults>>
wizardVars == <<process, terminal, history, pasted, stored, slips>>

\* Mutant: the fields in another order.
MutantFields == <<"publishableKey", "secretKey", "signingKeys", "anonRoleJwt", "serviceRoleJwt">>

\* The order in which runWizard hands the fields over.
Fields == <<"signingKeys", "publishableKey", "secretKey", "anonRoleJwt", "serviceRoleJwt">>

WizardTypeOK ==
    /\ run \in Runs
    /\ pc \in {"off", "open", "copy", "wait", "clear", "confirm", "final", "deferred"}
    /\ at \in 1..5
    /\ handler \in {"waiting", "clear", "exit"}
    /\ clipboard \in Values
    /\ reported \in BOOLEAN /\ overtaken \in BOOLEAN
    /\ ignored \in BOOLEAN /\ pasted \in BOOLEAN
    /\ stored \in [FieldNames -> Values]
    /\ faults \in 0..MaxFaults /\ slips \in 0..MaxSlips

WizardInit ==
    /\ run = 0 /\ pc = "off" /\ at = 1 /\ handler = "waiting"
    /\ clipboard = Empty /\ reported = FALSE /\ overtaken = FALSE /\ ignored = FALSE
    /\ pasted = FALSE /\ stored = GenerateCredentialBundle(0)
    /\ faults = 0 /\ slips = 0

-----------------------------------------------------------------------------
(* The terminal: OSC52 sequences.                                          *)

\* A write sets the clipboard or, within the bound, is ignored without an error.
Osc52(v) ==
    \/ clipboard' = v /\ UNCHANGED <<ignored, faults>>
    \/ faults < MaxFaults /\ faults' = faults + 1 /\ ignored' = TRUE /\ UNCHANGED clipboard

\* A write returns an error, having reached the terminal or not.
Osc52Fails(v) ==
    faults < MaxFaults /\ faults' = faults + 1 /\ clipboard' \in {clipboard, v} /\ UNCHANGED ignored

-----------------------------------------------------------------------------
(* runWizard.                                                              *)

Goto(step) == pc' = step /\ UNCHANGED <<run, at, handler>>

\* The process is gone, and what it held in memory.
End == pc' = "off" /\ at' = 1 /\ handler' = "waiting" /\ pasted' = FALSE /\ UNCHANGED run

\* The process is started; a new run makes a new bundle.
Launch ==
    /\ pc = "off" /\ run < MaxRuns
    /\ run' = run + 1 /\ pc' = "open"
    /\ reported' = FALSE /\ overtaken' = FALSE /\ ignored' = FALSE
    /\ UNCHANGED <<at, handler, clipboard, faults, pasted, stored, slips>>

\* Enter at the first prompt; the bundle is generated and validated.
Generate ==
    /\ pc = "open" /\ ValidateProjectCredentials(GenerateCredentialBundle(run))
    /\ Goto("copy")
    /\ UNCHANGED <<terminal, history, pasted, stored, slips>>

Copy ==
    /\ pc = "copy"
    /\ LET v == GenerateCredentialBundle(run)[Fields[at]]
       IN  \/ Osc52(v) /\ Goto("wait")
           \/ Osc52Fails(v) /\ Goto("deferred")
    /\ overtaken' = (overtaken \/ handler = "exit")
    /\ UNCHANGED <<reported, pasted, stored, slips>>

\* waitForEnter returns; the person has pasted the field, or slips.
WaitForEnter ==
    /\ pc = "wait" /\ Goto("clear")
    /\ \/ pasted /\ UNCHANGED slips
       \/ ~pasted /\ slips < MaxSlips /\ slips' = slips + 1
    /\ pasted' = FALSE
    /\ UNCHANGED <<terminal, history, stored>>

\* waitForEnter fails at one of the prompts, because the input has ended, or
\* the source of randomness does: runWizard returns an error.
ReturnError ==
    /\ pc \in {"open", "wait", "confirm"} /\ Goto("deferred")
    /\ pasted' = FALSE
    /\ UNCHANGED <<terminal, history, stored, slips>>

\* Mutant: the loop goes past the last field.
MutantClearField ==
    /\ pc = "clear"
    /\ \/ /\ Osc52(Empty)
          /\ pc' = IF at > 5 THEN "confirm" ELSE "copy"
          /\ at' = IF at > 5 THEN at ELSE at + 1
          /\ UNCHANGED <<run, handler>>
       \/ Osc52Fails(Empty) /\ Goto("deferred")
    /\ UNCHANGED <<history, pasted, stored, slips>>

ClearField ==
    /\ pc = "clear"
    /\ \/ /\ Osc52(Empty)
          /\ pc' = IF at = 5 THEN "confirm" ELSE "copy"
          /\ at' = IF at = 5 THEN at ELSE at + 1
          /\ UNCHANGED <<run, handler>>
       \/ Osc52Fails(Empty) /\ Goto("deferred")
    /\ UNCHANGED <<history, pasted, stored, slips>>

Confirm ==
    /\ pc = "confirm" /\ Goto("final")
    /\ UNCHANGED <<terminal, history, pasted, stored, slips>>

FinalClear ==
    /\ pc = "final" /\ (Osc52(Empty) \/ Osc52Fails(Empty)) /\ Goto("deferred")
    /\ UNCHANGED <<history, pasted, stored, slips>>

\* Mutant: runWizard returns without clearing.
MutantDeferredClear ==
    /\ pc = "deferred" /\ End
    /\ UNCHANGED <<terminal, history, stored, slips>>

\* The deferred Clear, whose error run joins to its own; the process ends.
DeferredClear ==
    /\ pc = "deferred" /\ End
    /\ \/ Osc52(Empty) /\ UNCHANGED reported
       \/ Osc52Fails(Empty) /\ reported' = TRUE
    /\ UNCHANGED <<overtaken, stored, slips>>

-----------------------------------------------------------------------------
(* The interrupt handler, a goroutine of its own.                          *)

\* SIGINT or SIGTERM.  Any other signal ends the process at once without a
\* clear; that is outside the model.
Interrupt ==
    /\ pc # "off" /\ handler = "waiting" /\ handler' = "clear"
    /\ UNCHANGED <<run, pc, at, terminal, history, pasted, stored, slips>>

HandlerClear ==
    /\ pc # "off" /\ handler = "clear" /\ handler' = "exit"
    /\ \/ Osc52(Empty) /\ UNCHANGED reported
       \/ Osc52Fails(Empty) /\ reported' = TRUE
    /\ UNCHANGED <<run, pc, at, overtaken, pasted, stored, slips>>

\* os.Exit(130): no deferred call runs.
HandlerExit ==
    /\ pc # "off" /\ handler = "exit" /\ End
    /\ UNCHANGED <<terminal, history, stored, slips>>

-----------------------------------------------------------------------------
(* The person.                                                             *)

\* The clipboard is saved under the key the wizard names, damaged or whole.
Paste ==
    /\ pc = "wait" /\ ~pasted /\ pasted' = TRUE
    /\ \/ stored' = [stored EXCEPT ![Fields[at]] = clipboard] /\ UNCHANGED slips
       \/ /\ slips < MaxSlips /\ slips' = slips + 1
          /\ stored' = [stored EXCEPT ![Fields[at]] = Garbled]
    /\ UNCHANGED <<process, terminal, history>>

WizardNext ==
    \/ Launch \/ Generate \/ Copy \/ WaitForEnter \/ ReturnError \/ ClearField
    \/ Confirm \/ FinalClear \/ DeferredClear
    \/ Interrupt \/ HandlerClear \/ HandlerExit \/ Paste

WizardSpec == WizardInit /\ [][WizardNext]_wizardVars

-----------------------------------------------------------------------------
(* Properties.                                                             *)

\* A bundle the operator accepts, at any moment of any run, comes whole from
\* one run ("never combine fields from separate runs"), as long as the person
\* saves every field before confirming it: also when runs were interrupted,
\* their input ended, or the terminal ignored a copy.  It rests on the order of
\* the fields: the key the tokens are checked with first, a token last.
AcceptedIsWhole ==
    slips = 0 /\ ValidateProjectCredentials(stored) =>
       \E r \in Runs : stored = GenerateCredentialBundle(r)

\* A run that has ended leaves a credential in the clipboard only after it said
\* that it may, unless the terminal ignored a sequence or an interrupt came
\* between the two goroutines: it cleared the clipboard, and the wizard copied
\* the next field before os.Exit.
ClipboardLeftClear ==
    pc = "off" /\ clipboard # Empty => reported \/ overtaken \/ ignored
=============================================================================
