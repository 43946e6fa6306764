--------------------------- MODULE StatusContract ---------------------------
(***************************************************************************)
(* What a client that only watches a SupabaseProject may rely on (the      *)
(* contract behind "kubectl wait --for=condition=Ready"): the aggregate    *)
(* Ready condition is raised, and status.observedGeneration advanced, only *)
(* by a status that reports every component ready and that was computed    *)
(* for the generation the API server holds at that moment.                 *)
(*                                                                         *)
(* The contract does not promise that Ready is lowered as soon as a        *)
(* component is reported not ready: the reconciler does not do so.         *)
(***************************************************************************)
EXTENDS Naturals

VARIABLES
    generation,   \* metadata.generation
    observed,     \* status.observedGeneration
    ready,        \* is the aggregate Ready condition True?
    sound         \* does the status report every component ready?

vars == <<generation, observed, ready, sound>>

Init ==
    /\ generation = 1
    /\ observed = 0
    /\ ready = FALSE
    /\ sound = FALSE

\* The user edits the spec.  Enabling or disabling PowerSync changes which
\* components count.
EditSpec ==
    /\ generation' = generation + 1
    /\ sound' \in BOOLEAN
    /\ UNCHANGED <<observed, ready>>

\* The operator reports success for the current generation.
ReportReady ==
    /\ observed' = generation
    /\ ready' = TRUE
    /\ sound' = TRUE
    /\ UNCHANGED generation

\* The operator reports anything else.
ReportProgress ==
    /\ ready' \in {ready, FALSE}
    /\ sound' \in BOOLEAN
    /\ UNCHANGED <<generation, observed>>

Next == EditSpec \/ ReportReady \/ ReportProgress

Spec == Init /\ [][Next]_vars
=============================================================================
