------------------------- MODULE MCProjectReconcile -------------------------
(* A small instance of ProjectReconcile for TLC. *)
EXTENDS ProjectReconcile

MCSpecs == {[size |-> 1, recovery |-> FALSE, hook |-> FALSE, powersync |-> FALSE],
            [size |-> 1, recovery |-> TRUE, hook |-> FALSE, powersync |-> FALSE],
            [size |-> 2, recovery |-> FALSE, hook |-> TRUE, powersync |-> TRUE]}

\* Two specs the same Cluster can serve.
MCGrowSpecs == {s \in MCSpecs : ~s.recovery}

\* Two specs that differ in size only: an edit shows in nothing but the project.
MCLiveSpecs == {[s EXCEPT !.hook = FALSE, !.powersync = TRUE] : s \in MCGrowSpecs}
=============================================================================
