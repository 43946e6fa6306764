------------------------- MODULE MCDurableResources -------------------------
(* Small instances of DurableResources for TLC. *)
EXTENDS DurableResources

S(n, b, server, path) == [size |-> n, backup |-> b, server |-> server, path |-> path]

\* Plain, larger with backups, and two recoveries from the same server that
\* differ in the location only.
MCSpecs == {S(1, FALSE, "none", "none"), S(2, TRUE, "none", "none"),
            S(1, FALSE, "old", "p"), S(1, TRUE, "old", "q")}
=============================================================================
